---- MODULE Spec2Model ----
(***************************************************************************)
(* Verification model of AgFrame's hybrid retrieval and self-correcting    *)
(* pipeline.                                                               *)
(*                                                                         *)
(*   Part I   the LangGraph workflow of app/runtime/graph/graph.py with    *)
(*            the grader node of app/skills/common/grader.py  (SpecGraph)  *)
(*   Part II  the BM25 lexical index and retriever of                      *)
(*            app/skills/rag/bm25  (SpecBM25, sequential use)              *)
(*   Part III the same retriever used by two threads  (SpecConc)           *)
(*   Part IV  reciprocal rank fusion of the sparse and the dense list,     *)
(*            app/skills/rag/hybrid_retriever_service.py  (SpecRRF)        *)
(*   Part V   the reranker, app/runtime/llm/reranker.py                    *)
(*            (SpecRerank, SpecWindows)                                    *)
(*   Part VI  parent restoration, RAGEngine.restore_parents of             *)
(*            app/skills/rag/rag_engine.py  (SpecRestore)                  *)
(*   Part VII the Grade step on the grader model's output,                 *)
(*            app/runtime/llm/structured_output.py  (SpecGrade)            *)
(*   Part VIII the document steps of a turn: retrieve_docs_node and        *)
(*            rerank_docs_node with their collaborators  (SpecTurn)        *)
(*   Part IX  saving and loading the lexical index,                        *)
(*            app/skills/rag/bm25/index_builder.py  (SpecPersist)          *)
(*   Part X   the prompt builder, app/runtime/prompts/prompt_builder.py    *)
(*            (SpecTake, SpecPrompt)                                       *)
(***************************************************************************)
EXTENDS Integers, Sequences, FiniteSets, TLC

VARIABLES
    \* ---- Part I: one turn of the workflow ----
    config,         \* feature_flags and self_correction.max_attempts as configured
    node,           \* the node about to run, "END", or "aborted" after an exception
    route,          \* state["route"]: needs_docs / needs_history
    attempts,       \* state["trace"]["self_correction_attempts"]
    verdict,        \* state["context"]["grade"]["verdict"] ("none": no grade yet)
    nonAccept,      \* history: rewrite/search transitions taken out of the grader
    gradeCount,     \* history: executions of the grader node
    allRewrite,     \* history: every grade so far was a returned verdict=rewrite
    lastKey,        \* history: the last decision of _grader_key and what it read
    messages,       \* AgentState.messages: the content of the last user message, "" if none
    context,        \* AgentState.context: self_correction, search_query, web_search
    trail,          \* history: the steps executed in this turn
    \* ---- Part II: one BM25Retriever ----
    index,          \* builder.index: the InvertedIndex object and its fields
    documents,      \* BM25Retriever._documents (page_content of each Document)
    indexed,        \* BM25Retriever._indexed
    cache,          \* BM25Retriever._cache: (query, top_k) -> result list
    cache_size,     \* BM25Retriever._cache_size
    builds,         \* history: add_documents calls so far
    lastSearch,     \* history: the last search call and what it returned
    bm25_score,     \* metadata["bm25_score"] of each Document of _documents, by doc id
    handed,         \* history: a search of a sequential run wrote another bm25_score
                    \* into a Document of _documents than the one it was handed out with
    \* ---- Part III: threads calling into the same retriever ----
    threads,        \* per thread: where it is in search / add_documents, its locals
    version,        \* history: the add_documents call each shared field stems from, the
                    \* last call that returned, the calls each cache entry was read from
    \* ---- Part IV: reciprocal rank fusion ----
    rrf_config,     \* HybridRetrievalConfig as configured: rrf_k and weights
    heap,           \* the Document objects: object -> metadata dict
    fuseCall,       \* history: the last _rrf_fuse call and what it returned
    \* ---- Part V: one ModelReranker ----
    reranker,       \* _disabled, _backend and which of the model parts are loaded
    rerankCall,     \* history: the last rerank call, what the model did, the outcome
    windowCall,     \* one _score_single_with_windows call: its inputs and its result
    \* ---- Part VI: parent restoration ----
    restoreCall,    \* history: the last restore_parents call, its fetches and result
    \* ---- Part VII: the Grade step ----
    gradeCall,      \* history: the last grader_node run, the model's answers, the grade
    \* ---- Part VIII: the document steps of a turn ----
    vectorstore,    \* RAGEngine._vectorstore: which search signatures it offers
    turn,           \* where the turn is: the node about to run, or how it ended
    retrieveCall,   \* history: the retrieve_candidates call of the turn
    \* ---- Part IX: saving and loading the lexical index ----
    builder,        \* the IndexBuilder that builds and saves
    built,          \* history: build calls so far
    disk,           \* the file system: directory -> bm25_index.json, if any
    saved,          \* history: the builder as it was when the file was written
    loader,         \* the IndexBuilder that loads
    loadCall,       \* history: the last load call: the builder that wrote the file,
                    \* the loading builder before and after
    \* ---- Part X: the prompt builder ----
    takeCall,       \* one _take_with_budget call: its arguments and, once made, its result
    promptCall      \* one build_system_prompt call: its arguments and its result

graphVars == <<config, node, route, attempts, verdict, nonAccept, gradeCount,
               allRewrite, lastKey, messages, context, trail>>

bm25Vars == <<index, documents, indexed, cache, cache_size, builds, lastSearch,
              bm25_score, handed>>

concVars == <<threads, version>>

rrfVars == <<rrf_config, heap, fuseCall>>

\* The variables of the retrieval stages after the lexical retriever.
rerankVars == <<reranker, rerankCall, windowCall>>

restoreVars == <<restoreCall>>

gradeVars == <<gradeCall>>

turnVars == <<vectorstore, turn, retrieveCall>>

persistVars == <<builder, built, disk, saved, loader, loadCall>>

promptVars == <<takeCall, promptCall>>

stageVars == <<rrfVars, rerankVars, restoreVars, gradeVars, turnVars, persistVars, promptVars>>

vars == <<graphVars, bm25Vars, concVars, stageVars>>

\* What the actions of one part leave alone.
notGraph == <<bm25Vars, concVars, stageVars>>
notBM25 == <<graphVars, concVars, stageVars>>
notRRF ==
    <<graphVars, bm25Vars, concVars, rerankVars, restoreVars, gradeVars, turnVars, persistVars, promptVars>>
notRerank ==
    <<graphVars, bm25Vars, concVars, rrfVars, restoreVars, gradeVars, turnVars, persistVars, promptVars>>
notRestore ==
    <<graphVars, bm25Vars, concVars, rrfVars, rerankVars, gradeVars, turnVars, persistVars, promptVars>>
notGrade ==
    <<graphVars, bm25Vars, concVars, rrfVars, rerankVars, restoreVars, turnVars, persistVars, promptVars>>
notTurn == <<graphVars, bm25Vars, concVars, rrfVars, restoreVars, gradeVars, persistVars, promptVars>>
notPersist ==
    <<graphVars, bm25Vars, concVars, rrfVars, rerankVars, restoreVars, gradeVars, turnVars, promptVars>>
notPrompt ==
    <<graphVars, bm25Vars, concVars, rrfVars, rerankVars, restoreVars, gradeVars, turnVars, persistVars>>

Max(a, b) == IF a >= b THEN a ELSE b
Min(a, b) == IF a <= b THEN a ELSE b

(***************************************************************************)
(* Part I.  The self-correction graph                                      *)
(***************************************************************************)

\* Largest max_attempts value configured in the model.
MaxAttempts == 3
\* The history counters saturate here, past every value a claim compares with.
CountCap == MaxAttempts + 2

DefaultMaxAttempts == 2

Verdicts == {"accept", "rewrite", "search"}

\* self_correction.max_attempts as found in the configuration: absent (None), or
\* an int.
MaxAttemptsValues ==
    {[present |-> FALSE, val |-> 0]} \cup {[present |-> TRUE, val |-> v] : v \in -1 .. MaxAttempts}

\* graph.py: _get_max_self_correction_attempts
_get_max_self_correction_attempts(val) ==
    IF ~val.present THEN DefaultMaxAttempts ELSE Max(0, val.val)

max_attempts == _get_max_self_correction_attempts(config.max_attempts)

\* graph.py: _route_key
_route_key(r, cfg) ==
    LET needs_docs == r.needs_docs /\ cfg.enable_docs_rag
        needs_history == r.needs_history /\ cfg.enable_chat_memory
    IN  IF needs_docs /\ needs_history THEN "both"
        ELSE IF needs_docs THEN "docs"
        ELSE IF needs_history THEN "history"
        ELSE "none"

\* graph.py: _after_docs_key
_after_docs_key(r, cfg) ==
    IF r.needs_history /\ cfg.enable_chat_memory THEN "memories" ELSE "profile"

\* A faulty variant of _grader_key: the cap is compared with > instead of >=.
_grader_key_gt(att, maxAtt, v) ==
    IF att > maxAtt THEN "accept"
    ELSE IF v = "search" THEN "search"
    ELSE IF v = "rewrite" THEN "rewrite"
    ELSE "accept"

\* A faulty variant of _grader_key: the cap only stops rewrite, a search verdict passes.
_grader_key_verdict_first(att, maxAtt, v) ==
    IF v = "search" THEN "search"
    ELSE IF v = "rewrite" /\ att < maxAtt THEN "rewrite"
    ELSE "accept"

\* graph.py: _grader_key (v is context.grade.verdict, "none" when there is no grade)
_grader_key(att, maxAtt, v) ==
    IF att >= maxAtt THEN "accept"
    ELSE IF v = "search" THEN "search"
    ELSE IF v = "rewrite" THEN "rewrite"
    ELSE "accept"

\* A faulty variant of the counter update: only a search verdict is counted.
grader_attempts_search_only(att, v) == IF v = "search" THEN att + 1 ELSE att

\* grader.py lines 119-122: the counter after a grade with verdict v was returned
grader_attempts(att, v) == IF v # "accept" THEN att + 1 ELSE att

\* The user's question, the last user message of the turn.
Question == "q"

\* A search query of the grader's own.
GraderQuery == "sq"

\* What the grader node can do: the model collaborator returns a verdict (a
\* malformed output is turned into the fallback verdict rewrite by
\* invoke_structured) and, with a search verdict, a search_query or None; an
\* exception may be raised inside the try block before the counter is stored
\* (line 122) or after it.
GraderOutcomes ==
    [verdict : {"accept", "rewrite"}, raised : {"no", "before_count", "after_count"},
     search_query : {"None"}]
        \cup [verdict : {"search"}, raised : {"no", "before_count", "after_count"},
              search_query : {"None", GraderQuery}]

\* grader.py: grader_node, as the pair <<attempts, verdict>> it leaves in the state
grader_node(att, o) ==
    IF o.raised = "no" THEN <<grader_attempts(att, o.verdict), o.verdict>>
    ELSE IF o.raised = "after_count" THEN <<grader_attempts(att, o.verdict), "rewrite">>
    ELSE <<att, "rewrite">>

\* A value of the context is kept with where it comes from.  self_correction:
\* "recorded" for the rewrite_instructions of the grade now in context.grade,
\* "other" for those of another grader result.  web_search: "latest" when the
\* web_search step wrote it after the last Grade step, "earlier" otherwise.
EmptyContext ==
    [self_correction |-> "absent", search_query |-> "absent",
     web_search |-> [of |-> "absent", result |-> "absent"]]

\* The values already in the context when a Grade step starts belong to an
\* earlier grade from then on.
earlier_context(ctx) ==
    [ctx EXCEPT !.self_correction = IF @ = "absent" THEN "absent" ELSE "other",
                !.web_search.of = IF @ = "absent" THEN "absent" ELSE "earlier"]

\* grader.py lines 112-117 and 140-146: the context the grader node returns.  The
\* except branch puts its own grade in context.grade and leaves self_correction
\* and search_query as they are at that point.
grader_context(ctx, o, question) ==
    LET old == earlier_context(ctx)
        instructions == IF o.raised = "no" THEN "recorded" ELSE "other"
    IN  IF o.raised = "before_count" \/ o.verdict = "accept" THEN old
        ELSE IF o.verdict = "rewrite" THEN [old EXCEPT !.self_correction = instructions]
        ELSE [old EXCEPT !.search_query =
                             IF o.search_query # "None" THEN o.search_query ELSE question,
                         !.self_correction = instructions]

\* web_search.py line 36: the query of the web_search step
web_search_query(ctx, question) ==
    IF ctx.search_query \notin {"absent", ""} THEN ctx.search_query ELSE question

\* web_search.py: web_search_node, as the context it returns; tool is what the
\* search tool does: "ok" or "raises"
web_search_node(ctx, question, tool) ==
    IF web_search_query(ctx, question) = "" THEN ctx
    ELSE [ctx EXCEPT !.web_search =
                 [of |-> "latest",
                  result |-> IF tool = "ok" THEN "result" ELSE "Search failed"]]

\* No step has run.  retrieve_docs, rerank_docs and retrieve_memories count
\* their executions of the turn (up to 2), assemble and generate note that they
\* have run, web_search notes that it has run since the last Grade step.
EmptyTrail ==
    [retrieve_docs |-> 0, rerank_docs |-> 0, retrieve_memories |-> 0,
     assemble |-> FALSE, generate |-> FALSE, web_search |-> FALSE]

Counted(t, step) == [t EXCEPT ![step] = Min(@ + 1, 2)]

InitGraph ==
    /\ config \in [enable_self_correction : BOOLEAN,
                   enable_docs_rag : BOOLEAN,
                   enable_chat_memory : BOOLEAN,
                   max_attempts : MaxAttemptsValues]
    /\ node = "router"
    /\ route = [needs_docs |-> FALSE, needs_history |-> FALSE]
    /\ attempts = 0
    /\ verdict = "none"
    /\ nonAccept = 0
    /\ gradeCount = 0
    /\ allRewrite = TRUE
    /\ lastKey = [key |-> "none", attempts |-> 0, verdict |-> "none"]
    /\ messages \in {Question, ""}
    /\ context = EmptyContext
    /\ trail = EmptyTrail

\* router.py: router_node, then the conditional edge on _route_key
Router ==
    /\ node = "router"
    /\ \E nd \in BOOLEAN, nh \in BOOLEAN :
          LET r == [needs_docs |-> nd, needs_history |-> nh]
              k == _route_key(r, config)
          IN  /\ route' = r
              /\ node' = IF k \in {"both", "docs"} THEN "retrieve_docs"
                         ELSE IF k = "history" THEN "retrieve_memories"
                         ELSE "retrieve_profile"
    /\ UNCHANGED <<config, attempts, verdict, nonAccept, gradeCount, allRewrite, lastKey,
                   messages, context, trail>>
    /\ UNCHANGED notGraph

\* retrieve_docs.py: retrieve_docs_node; the retrieval is not inside a try, an
\* exception of it ends the run
RetrieveDocs ==
    /\ node = "retrieve_docs"
    /\ \E raised \in BOOLEAN : node' = IF raised THEN "aborted" ELSE "rerank_docs"
    /\ trail' = Counted(trail, "retrieve_docs")
    /\ UNCHANGED <<config, route, attempts, verdict, nonAccept, gradeCount,
                   allRewrite, lastKey, messages, context>>
    /\ UNCHANGED notGraph

\* rerank_docs.py: rerank_docs_node (no try either), then the conditional edge on
\* _after_docs_key
RerankDocs ==
    /\ node = "rerank_docs"
    /\ \E raised \in BOOLEAN :
          node' = IF raised THEN "aborted"
                  ELSE IF _after_docs_key(route, config) = "memories"
                  THEN "retrieve_memories" ELSE "retrieve_profile"
    /\ trail' = Counted(trail, "rerank_docs")
    /\ UNCHANGED <<config, route, attempts, verdict, nonAccept, gradeCount,
                   allRewrite, lastKey, messages, context>>
    /\ UNCHANGED notGraph

\* retrieve_memories.py: retrieve_memories_node (the retrieval is inside a try)
RetrieveMemories ==
    /\ node = "retrieve_memories"
    /\ node' = "retrieve_profile"
    /\ trail' = Counted(trail, "retrieve_memories")
    /\ UNCHANGED <<config, route, attempts, verdict, nonAccept, gradeCount,
                   allRewrite, lastKey, messages, context>>
    /\ UNCHANGED notGraph

RetrieveProfile ==
    /\ node = "retrieve_profile"
    /\ node' = "assemble"
    /\ UNCHANGED <<config, route, attempts, verdict, nonAccept, gradeCount,
                   allRewrite, lastKey, messages, context, trail>>
    /\ UNCHANGED notGraph

\* assemble_prompt.py: assemble_prompt_node reads context.web_search and
\* context.self_correction (lines 91-92) and adds the prompt and the citations
Assemble ==
    /\ node = "assemble"
    /\ node' = "generate"
    /\ trail' = [trail EXCEPT !.assemble = TRUE]
    /\ UNCHANGED <<config, route, attempts, verdict, nonAccept, gradeCount,
                   allRewrite, lastKey, messages, context>>
    /\ UNCHANGED notGraph

\* generate.py: generate_node (the model call is not inside a try); graph.py
\* lines 118-127: generate leads to the grader only with self-correction on
Generate ==
    /\ node = "generate"
    /\ \E raised \in BOOLEAN :
          node' = IF raised THEN "aborted"
                  ELSE IF config.enable_self_correction THEN "grader" ELSE "END"
    /\ trail' = [trail EXCEPT !.generate = TRUE]
    /\ UNCHANGED <<config, route, attempts, verdict, nonAccept, gradeCount,
                   allRewrite, lastKey, messages, context>>
    /\ UNCHANGED notGraph

\* grader.py: grader_node, then the conditional edge on _grader_key
Grader ==
    /\ node = "grader"
    /\ \E o \in GraderOutcomes :
          LET g == grader_node(attempts, o)
              k == _grader_key(g[1], max_attempts, g[2])
          IN  /\ attempts' = g[1]
              /\ verdict' = g[2]
              /\ context' = grader_context(context, o, messages)
              /\ lastKey' = [key |-> k, attempts |-> g[1], verdict |-> g[2]]
              /\ node' = IF k = "accept" THEN "END"
                         ELSE IF k = "rewrite" THEN "retrieve_profile"
                         ELSE "web_search"
              /\ nonAccept' = IF k = "accept" THEN nonAccept
                              ELSE Min(nonAccept + 1, CountCap)
              /\ gradeCount' = Min(gradeCount + 1, CountCap)
              /\ allRewrite' = (allRewrite /\ o.raised = "no" /\ o.verdict = "rewrite")
    /\ trail' = [trail EXCEPT !.web_search = FALSE]
    /\ UNCHANGED <<config, route, messages>>
    /\ UNCHANGED notGraph

\* web_search.py: web_search_node
WebSearch ==
    /\ node = "web_search"
    /\ node' = "retrieve_profile"
    /\ \E tool \in {"ok", "raises"} : context' = web_search_node(context, messages, tool)
    /\ trail' = [trail EXCEPT !.web_search = TRUE]
    /\ UNCHANGED <<config, route, attempts, verdict, nonAccept, gradeCount,
                   allRewrite, lastKey, messages>>
    /\ UNCHANGED notGraph

NextGraph ==
    \/ Router
    \/ RetrieveDocs
    \/ RerankDocs
    \/ RetrieveMemories
    \/ RetrieveProfile
    \/ Assemble
    \/ Generate
    \/ Grader
    \/ WebSearch

(***************************************************************************)
(* Part II.  The BM25 lexical index and retriever                          *)
(*                                                                         *)
(* A text is a sequence of words separated by single blanks.  A Python     *)
(* dict is a function; a dict that is iterated keeps its keys in insertion *)
(* order where the code depends on it (term_doc_freq).  Document ids are   *)
(* 0-based as in the code, sequences are 1-based.  A float is a fixed-point *)
(* number with four decimals, avg_doc_len is the exact fraction            *)
(* <<sum, count>>.                                                         *)
(***************************************************************************)

\* Number of add_documents calls in one history.
MaxBuilds == 2
\* Largest cache_size configured in the model.
MaxCacheSize == 2
\* Largest top_k asked for.
MaxTopK == 2

DefaultCacheSize == 100

\* The words texts are made of: "a" is too short to be a term, "Ja" is not
\* lower-case.
Words == {"py", "Ja", "a"}

\* The corpora handed to add_documents.
Corpora ==
    { <<>>,
      << <<"py">> >>,
      << <<"py", "a">>, <<"Ja", "py", "py">> >>,
      << <<"Ja">>, <<>> >> }

\* The query texts.
Queries == { <<>>, <<"py">>, <<"a", "Ja">> }

TopKs == 0 .. MaxTopK
CacheSizes == 0 .. MaxCacheSize

Get(d, k, default) == IF k \in DOMAIN d THEN d[k] ELSE default
Put(d, k, v) == [x \in DOMAIN d \cup {k} |-> IF x = k THEN v ELSE d[x]]

RECURSIVE SumSeq(_)
SumSeq(q) == IF q = <<>> THEN 0 ELSE Head(q) + SumSeq(Tail(q))

RECURSIVE SumOver(_, _)
SumOver(f, S) ==
    IF S = {} THEN 0
    ELSE LET x == CHOOSE y \in S : TRUE IN f[x] + SumOver(f, S \ {x})

RECURSIVE ConcatAll(_)
ConcatAll(q) == IF q = <<>> THEN <<>> ELSE Head(q) \o ConcatAll(Tail(q))

RECURSIVE JoinWords(_)
JoinWords(q) == IF q = <<>> THEN "" ELSE Head(q) \o JoinWords(Tail(q))

\* str.lower on the words of the model
Lower(w) == IF w = "Ja" THEN "ja" ELSE w

\* jieba.cut on a text of ASCII words with the blanks removed: the run of
\* letters is one word.
jieba_cut(lowered) == IF lowered = <<>> THEN <<>> ELSE <<JoinWords(lowered)>>

\* tokenizer.py: Tokenizer.tokenize in the default "mixed" mode
tokenize(text) ==
    IF text = <<>> THEN <<>>
    ELSE LET lowered == [i \in 1 .. Len(text) |-> Lower(text[i])]
             en_words == lowered
             zh_words == jieba_cut(lowered)
         IN  SelectSeq(en_words \o zh_words, LAMBDA w : Len(w) > 1)

\* math.log of 1 .. 40 in fixed point: ten thousand times the logarithm, rounded.
LnTable ==
    <<0, 6931, 10986, 13863, 16094, 17918, 19459, 20794, 21972, 23026,
      23979, 24849, 25649, 26391, 27081, 27726, 28332, 28904, 29444, 29957,
      30445, 30910, 31355, 31781, 32189, 32581, 32958, 33322, 33673, 34012,
      34340, 34657, 34965, 35264, 35553, 35835, 36109, 36376, 36636, 36889>>

\* math.log(num / den) for positive integers
Log(num, den) == LnTable[num] - LnTable[den]

RECURSIVE Gcd(_, _)
Gcd(a, b) == IF b = 0 THEN a ELSE Gcd(b, a % b)

\* a / b as a fraction in lowest terms (b > 0, a >= 0)
Frac(a, b) == LET g == Gcd(a, b) IN IF g = 0 THEN <<0, 1>> ELSE <<a \div g, b \div g>>

\* inverted_index.py: InvertedIndex.__init__
EmptyIndex ==
    [term_dict |-> <<>>, posting_lists |-> <<>>, doc_count |-> 0,
     avg_doc_len |-> <<0, 1>>, doc_lens |-> <<>>, df |-> <<>>, idf |-> <<>>]

\* The distinct elements of a sequence in the order of their first occurrence.
RECURSIVE Distinct(_, _)
Distinct(q, seen) ==
    IF q = <<>> THEN <<>>
    ELSE IF Head(q) \in seen THEN Distinct(Tail(q), seen)
    ELSE <<Head(q)>> \o Distinct(Tail(q), seen \cup {Head(q)})

Count(q, x) == Cardinality({i \in 1 .. Len(q) : q[i] = x})

\* inverted_index.py lines 21-29 and 42: term_doc_freq[term] as the list of (doc_id, tf)
\* in insertion order, which is the order of the doc ids
RECURSIVE PostingOf(_, _, _)
PostingOf(toks, term, d) ==
    IF d > Len(toks) THEN <<>>
    ELSE (IF Count(toks[d], term) > 0 THEN << <<d - 1, Count(toks[d], term)>> >> ELSE <<>>)
         \o PostingOf(toks, term, d + 1)

\* inverted_index.py: InvertedIndex._build_term_dict
RECURSIVE _build_term_dict(_, _, _, _)
_build_term_dict(td, pl, order, toks) ==
    IF order = <<>> THEN <<td, pl>>
    ELSE LET term == Head(order)
             term_id == Cardinality(DOMAIN td)
         IN  _build_term_dict(Put(td, term, term_id),
                              Append(pl, PostingOf(toks, term, 1)), Tail(order), toks)

\* inverted_index.py: InvertedIndex._compute_idf, for one term
_compute_idf(doc_count, df) == Log(2 * doc_count + 2, 2 * df + 1)

\* inverted_index.py lines 20-32: doc_count and the loop over the documents,
\* which fills doc_lens and df
build_scan(ix, docs) ==
    LET n == Len(docs)
        toks == [d \in 1 .. n |-> tokenize(docs[d])]
        terms == UNION {{toks[d][i] : i \in 1 .. Len(toks[d])} : d \in 1 .. n}
    IN  [ix EXCEPT
           !.doc_count = n,
           !.doc_lens = [d \in DOMAIN ix.doc_lens \cup (0 .. n - 1) |->
                            IF d < n THEN Len(toks[d + 1]) ELSE ix.doc_lens[d]],
           !.df = [t \in DOMAIN ix.df \cup terms |->
                      Get(ix.df, t, 0) + Cardinality({d \in 1 .. n : Count(toks[d], t) > 0})]]

\* inverted_index.py lines 34-36: _build_term_dict, _compute_idf and avg_doc_len
build_finish(ix, docs) ==
    LET toks == [d \in 1 .. Len(docs) |-> tokenize(docs[d])]
        order == Distinct(ConcatAll(toks), {})
        tdpl == _build_term_dict(ix.term_dict, ix.posting_lists, order, toks)
    IN  [ix EXCEPT
           !.term_dict = tdpl[1],
           !.posting_lists = tdpl[2],
           !.idf = [t \in DOMAIN ix.df |-> _compute_idf(ix.doc_count, ix.df[t])],
           !.avg_doc_len = Frac(SumOver(ix.doc_lens, DOMAIN ix.doc_lens),
                                Max(1, ix.doc_count))]

\* inverted_index.py: InvertedIndex.build on the index ix
build(ix, docs) == build_finish(build_scan(ix, docs), docs)

\* inverted_index.py: InvertedIndex.get_postings
get_postings(ix, term) ==
    IF term \notin DOMAIN ix.term_dict THEN <<>>
    ELSE ix.posting_lists[ix.term_dict[term] + 1]

\* bm25_scorer.py lines 23-27: the tf of doc_id in a posting list, 0 if absent
TfIn(posting, doc_id) ==
    LET hits == {i \in 1 .. Len(posting) : posting[i][1] = doc_id}
    IN  IF hits = {} THEN 0
        ELSE posting[CHOOSE i \in hits : \A j \in hits : i <= j][2]

\* bm25_scorer.py lines 15-34: the contribution of one query term, with
\* k1 = 1.5 and b = 0.75:
\*   idf * tf * 2.5 / (tf + 1.5 * (0.25 + 0.75 * doc_len / avgdl))
\*     = idf * 20 * tf * A / (8 * tf * A + 3 * A + 9 * doc_len * B),  avgdl = A / B
term_score(ix, doc_id, term) ==
    IF term \notin DOMAIN ix.term_dict THEN 0
    ELSE LET doc_len == Get(ix.doc_lens, doc_id, 0)
             avg == IF ix.avg_doc_len[1] = 0 THEN <<1, 1>> ELSE ix.avg_doc_len
             tf == TfIn(get_postings(ix, term), doc_id)
             idf == Get(ix.idf, term, 0)
             numerator == 20 * tf * avg[1]
             denominator == 8 * tf * avg[1] + 3 * avg[1] + 9 * doc_len * avg[2]
         IN  IF denominator > 0 THEN (idf * numerator) \div denominator ELSE 0

\* bm25_scorer.py: BM25Scorer.score
score(ix, doc_id, query) ==
    LET query_terms == tokenize(query)
    IN  SumSeq([i \in 1 .. Len(query_terms) |-> term_score(ix, doc_id, query_terms[i])])

\* retriever.py line 61: sorted by score, descending; the sort is stable and the
\* candidate set is iterated in the order of the doc ids
RECURSIVE SortByScore(_)
SortByScore(S) ==
    IF S = {} THEN <<>>
    ELSE LET best == CHOOSE x \in S : \A y \in S :
                        \/ x.score > y.score
                        \/ (x.score = y.score /\ x.doc_id <= y.doc_id)
         IN  <<best>> \o SortByScore(S \ {best})

Take(q, k) == SubSeq(q, 1, Min(Len(q), k))

\* retriever.py lines 51-54: the documents in the postings of the query terms
candidate_docs(ix, query) ==
    LET query_terms == tokenize(query)
    IN  UNION {{get_postings(ix, query_terms[i])[j][1] :
                    j \in 1 .. Len(get_postings(ix, query_terms[i]))} :
               i \in 1 .. Len(query_terms)}

\* retriever.py lines 56-64: the candidates scored, sorted and cut to top_k
top_scores(ix, cands, query, top_k) ==
    Take(SortByScore({[doc_id |-> d, score |-> score(ix, d, query)] : d \in cands}),
         top_k)

\* retriever.py lines 63-68: the (doc, score) pairs of the ids that _documents has
results_of(top, docs) ==
    LET kept == SelectSeq(top, LAMBDA e : 0 <= e.doc_id /\ e.doc_id < Len(docs))
    IN  [i \in 1 .. Len(kept) |->
            [doc_id |-> kept[i].doc_id, doc |-> docs[kept[i].doc_id + 1],
             score |-> kept[i].score]]

\* retriever.py lines 47-68: the result list computed on a cache miss
compute_results(ix, docs, query, top_k) ==
    results_of(top_scores(ix, candidate_docs(ix, query), query, top_k), docs)

\* What search(query, top_k) returns on a retriever in the given state.
search_result(ix, docs, isIndexed, ch, query, top_k) ==
    IF <<query, top_k>> \in DOMAIN ch THEN ch[<<query, top_k>>]
    ELSE IF ~isIndexed THEN <<>>
    ELSE IF tokenize(query) = <<>> THEN <<>>
    ELSE compute_results(ix, docs, query, top_k)

\* A faulty variant of the insert: the cache is cleared only when it is over the size.
cache_insert_gt(ch, size, key, results) ==
    IF Cardinality(DOMAIN ch) > size THEN (key :> results)
    ELSE Put(ch, key, results)

\* retriever.py lines 70-73: the insert of a computed result
cache_insert(ch, size, key, results) ==
    IF Cardinality(DOMAIN ch) >= size THEN (key :> results)
    ELSE Put(ch, key, results)

\* The Document has no bm25_score in its metadata.
NoScore == [present |-> FALSE, val |-> 0]

\* The Documents as add_documents receives them.
unscored(docs) == [i \in 1 .. Len(docs) |-> NoScore]

\* retriever.py line 67: doc.metadata["bm25_score"] = score for every result;
\* md[doc_id + 1] is the bm25_score of the Document with that id
scored(md, results) ==
    [i \in 1 .. Len(md) |->
        IF \E j \in 1 .. Len(results) : results[j].doc_id = i - 1
        THEN [present |-> TRUE,
              val |-> results[CHOOSE j \in 1 .. Len(results) :
                                  results[j].doc_id = i - 1].score]
        ELSE md[i]]

\* retriever.py lines 40-49: the search gets past the lookup and the two early
\* returns, so that it computes a result, writes the scores and inserts
computes(isIndexed, ch, query, top_k) ==
    /\ <<query, top_k>> \notin DOMAIN ch
    /\ isIndexed
    /\ tokenize(query) # <<>>

\* Every bm25_score in the metadata was handed to the caller of the search that
\* wrote it, as the score of its (doc, score) pair (lines 67-68); the write of a
\* later search changes such a pair when it puts another value there.
rescores(md, after) ==
    \E i \in 1 .. Len(md) : md[i].present /\ after[i].val # md[i].val

\* The (doc, score) pairs of a result list, the Document by its id.
pairs_of(results) == {<<results[i].doc_id, results[i].score>> : i \in 1 .. Len(results)}

\* A retriever on which add_documents(docs) was the only call.
FreshIndex(docs) == build(EmptyIndex, docs)

InitBM25 ==
    /\ index = EmptyIndex
    /\ documents = <<>>
    /\ indexed = FALSE
    /\ cache = <<>>
    /\ cache_size \in CacheSizes
    /\ builds = 0
    /\ lastSearch = [valid |-> FALSE]
    /\ bm25_score = <<>>
    /\ handed = [rescored |-> FALSE]

\* The retriever before any call, while another part is under study.
IdleBM25 ==
    /\ index = EmptyIndex
    /\ documents = <<>>
    /\ indexed = FALSE
    /\ cache = <<>>
    /\ cache_size = DefaultCacheSize
    /\ builds = 0
    /\ lastSearch = [valid |-> FALSE]
    /\ bm25_score = <<>>
    /\ handed = [rescored |-> FALSE]

\* retriever.py: BM25Retriever.add_documents
AddDocuments ==
    /\ builds < MaxBuilds
    /\ \E docs \in Corpora :
          /\ documents' = docs
          /\ index' = build(index, docs)
          /\ indexed' = TRUE
          /\ cache' = <<>>
          /\ bm25_score' = unscored(docs)
    /\ handed' = [rescored |-> FALSE]
    /\ builds' = builds + 1
    /\ lastSearch' = [valid |-> FALSE]
    /\ UNCHANGED cache_size
    /\ UNCHANGED notBM25

\* retriever.py: BM25Retriever.search
Search ==
    /\ \E q \in Queries, k \in TopKs :
          \E results \in {search_result(index, documents, indexed, cache, q, k)} :
              /\ lastSearch' = [valid |-> TRUE, query |-> q, top_k |-> k,
                                hit |-> (<<q, k>> \in DOMAIN cache),
                                cached_before |-> Cardinality(DOMAIN cache),
                                result |-> results]
              /\ cache' = IF computes(indexed, cache, q, k)
                          THEN cache_insert(cache, cache_size, <<q, k>>, results)
                          ELSE cache
              /\ bm25_score' = IF computes(indexed, cache, q, k)
                               THEN scored(bm25_score, results)
                               ELSE bm25_score
              /\ handed' = [rescored |->
                               handed.rescored \/ rescores(bm25_score, bm25_score')]
    /\ UNCHANGED <<index, documents, indexed, cache_size, builds>>
    /\ UNCHANGED notBM25

NextBM25 ==
    \/ AddDocuments
    \/ Search

(***************************************************************************)
(* Part III.  Two threads on one BM25Retriever                             *)
(*                                                                         *)
(* The only lock is _cache_lock, held for the cache lookup, for the insert *)
(* and for clear_cache.  Every other statement of search and add_documents *)
(* runs unlocked; the steps below are the points between which the         *)
(* interpreter may switch threads (a coarser grain than the byte code: each *)
(* interleaving shown here is one the program has).                        *)
(***************************************************************************)

Threads == {"t1", "t2"}

\* The calls the threads make: a subset of those of Part II.
ConcQueries == { <<"py">>, <<"a", "Ja">> }
ConcTopKs == {MaxTopK}
ConcCorpora ==
    { << <<"py">> >>,
      << <<"py", "a">>, <<"Ja", "py", "py">> >> }

IdleThread ==
    [pc |-> "idle", query |-> <<>>, top_k |-> 0, docs |-> <<>>, v |-> 0,
     cands |-> {}, top |-> <<>>, results |-> <<>>, seen |-> {},
     ret |-> [kind |-> "none", result |-> <<>>]]

Returned(kind, result) == [IdleThread EXCEPT !.ret = [kind |-> kind, result |-> result]]

InitConc ==
    /\ threads = [t \in Threads |-> IdleThread]
    /\ version = [docs |-> 0, scan |-> 0, finish |-> 0, returned |-> 0, cached |-> <<>>]

\* retriever.py lines 38-42: the lookup under _cache_lock
SearchLookup(t) ==
    /\ threads[t].pc = "idle"
    /\ \E q \in ConcQueries, k \in ConcTopKs :
          threads' = [threads EXCEPT ![t] =
              IF <<q, k>> \in DOMAIN cache THEN Returned("hit", cache[<<q, k>>])
              ELSE [IdleThread EXCEPT !.pc = "s_indexed", !.query = q, !.top_k = k]]
    /\ UNCHANGED <<bm25Vars, version, graphVars, stageVars>>

\* retriever.py lines 44-49: _indexed is read, the query is tokenized
SearchCheckIndexed(t) ==
    /\ threads[t].pc = "s_indexed"
    /\ threads' = [threads EXCEPT ![t] =
          IF ~indexed \/ tokenize(threads[t].query) = <<>> THEN Returned("empty", <<>>)
          ELSE [@ EXCEPT !.pc = "s_candidates"]]
    /\ UNCHANGED <<bm25Vars, version, graphVars, stageVars>>

\* retriever.py lines 51-54: term_dict and posting_lists are read
SearchCandidates(t) ==
    /\ threads[t].pc = "s_candidates"
    /\ threads' = [threads EXCEPT ![t] =
          [@ EXCEPT !.pc = "s_score",
                    !.cands = candidate_docs(index, threads[t].query),
                    !.seen = {version.finish}]]
    /\ UNCHANGED <<bm25Vars, version, graphVars, stageVars>>

\* retriever.py lines 56-61: the scorer reads doc_lens, avg_doc_len, idf, postings
SearchScore(t) ==
    /\ threads[t].pc = "s_score"
    /\ threads' = [threads EXCEPT ![t] =
          [@ EXCEPT !.pc = "s_docs",
                    !.top = top_scores(index, threads[t].cands, threads[t].query,
                                       threads[t].top_k),
                    !.seen = @ \cup {version.scan, version.finish}]]
    /\ UNCHANGED <<bm25Vars, version, graphVars, stageVars>>

\* retriever.py lines 63-68: _documents is read
SearchResults(t) ==
    /\ threads[t].pc = "s_docs"
    /\ threads' = [threads EXCEPT ![t] =
          [@ EXCEPT !.pc = "s_insert",
                    !.results = results_of(threads[t].top, documents),
                    !.seen = @ \cup {version.docs}]]
    /\ bm25_score' = scored(bm25_score, results_of(threads[t].top, documents))
    /\ UNCHANGED <<index, documents, indexed, cache, cache_size, builds, lastSearch, handed>>
    /\ UNCHANGED <<version, graphVars, stageVars>>

\* retriever.py lines 70-75: the insert under _cache_lock, and the return
SearchInsert(t) ==
    /\ threads[t].pc = "s_insert"
    /\ cache' = cache_insert(cache, cache_size,
                             <<threads[t].query, threads[t].top_k>>, threads[t].results)
    /\ threads' = [threads EXCEPT ![t] = Returned("computed", threads[t].results)]
    /\ version' = [version EXCEPT !.cached =
                       [key \in DOMAIN cache' |->
                           IF key = <<threads[t].query, threads[t].top_k>>
                           THEN threads[t].seen ELSE @[key]]]
    /\ UNCHANGED <<index, documents, indexed, cache_size, builds, lastSearch, bm25_score, handed>>
    /\ UNCHANGED <<graphVars, stageVars>>

\* retriever.py line 30: _documents is replaced
AddStart(t) ==
    /\ threads[t].pc = "idle"
    /\ builds < MaxBuilds
    /\ \E docs \in ConcCorpora :
          /\ documents' = docs
          /\ threads' = [threads EXCEPT ![t] =
                [IdleThread EXCEPT !.pc = "a_scan", !.docs = docs, !.v = builds + 1]]
    /\ builds' = builds + 1
    /\ version' = [version EXCEPT !.docs = builds + 1]
    /\ bm25_score' = unscored(documents')
    /\ UNCHANGED <<index, indexed, cache, cache_size, lastSearch, handed, graphVars, stageVars>>

\* retriever.py line 32, inverted_index.py lines 20-32
AddScan(t) ==
    /\ threads[t].pc = "a_scan"
    /\ index' = build_scan(index, threads[t].docs)
    /\ version' = [version EXCEPT !.scan = threads[t].v]
    /\ threads' = [threads EXCEPT ![t] = [@ EXCEPT !.pc = "a_finish"]]
    /\ UNCHANGED <<documents, indexed, cache, cache_size, builds, lastSearch, bm25_score, handed>>
    /\ UNCHANGED <<graphVars, stageVars>>

\* inverted_index.py lines 34-36
AddFinish(t) ==
    /\ threads[t].pc = "a_finish"
    /\ index' = build_finish(index, threads[t].docs)
    /\ version' = [version EXCEPT !.finish = threads[t].v]
    /\ threads' = [threads EXCEPT ![t] = [@ EXCEPT !.pc = "a_flags"]]
    /\ UNCHANGED <<documents, indexed, cache, cache_size, builds, lastSearch, bm25_score, handed>>
    /\ UNCHANGED <<graphVars, stageVars>>

\* retriever.py lines 33-34: the scorer is made, _indexed is set
AddFlags(t) ==
    /\ threads[t].pc = "a_flags"
    /\ indexed' = TRUE
    /\ threads' = [threads EXCEPT ![t] = [@ EXCEPT !.pc = "a_clear"]]
    /\ UNCHANGED <<index, documents, cache, cache_size, builds, lastSearch, bm25_score, handed>>
    /\ UNCHANGED <<version, graphVars, stageVars>>

\* retriever.py line 35 and lines 82-84: clear_cache under _cache_lock, the return
AddClear(t) ==
    /\ threads[t].pc = "a_clear"
    /\ cache' = <<>>
    /\ threads' = [threads EXCEPT ![t] = IdleThread]
    /\ version' = [version EXCEPT !.cached = <<>>, !.returned = threads[t].v]
    /\ UNCHANGED <<index, documents, indexed, cache_size, builds, lastSearch, bm25_score, handed>>
    /\ UNCHANGED <<graphVars, stageVars>>

NextConc ==
    \E t \in Threads :
        \/ SearchLookup(t)
        \/ SearchCheckIndexed(t)
        \/ SearchCandidates(t)
        \/ SearchScore(t)
        \/ SearchResults(t)
        \/ SearchInsert(t)
        \/ AddStart(t)
        \/ AddScan(t)
        \/ AddFinish(t)
        \/ AddFlags(t)
        \/ AddClear(t)

\* The graph before the turn starts, while another part is under study.
IdleGraph ==
    /\ config = [enable_self_correction |-> TRUE, enable_docs_rag |-> TRUE,
                 enable_chat_memory |-> TRUE,
                 max_attempts |-> [present |-> FALSE, val |-> 0]]
    /\ node = "router"
    /\ route = [needs_docs |-> FALSE, needs_history |-> FALSE]
    /\ attempts = 0
    /\ verdict = "none"
    /\ nonAccept = 0
    /\ gradeCount = 0
    /\ allRewrite = TRUE
    /\ lastKey = [key |-> "none", attempts |-> 0, verdict |-> "none"]
    /\ messages = Question
    /\ context = EmptyContext
    /\ trail = EmptyTrail

(***************************************************************************)
(* Part IV.  Reciprocal rank fusion                                        *)
(*           (app/skills/rag/hybrid_retriever_service.py)                  *)
(*                                                                         *)
(* A Document is an object on a heap: its page_content never changes, its  *)
(* metadata dict is replaced by _rrf_fuse.  A weight is a multiple of 0.5  *)
(* and a fused score is an exact multiple of 0.5 / RrfUnit(rrf_k), so that *)
(* equal sums are equal numbers, as they are for the two float terms the   *)
(* service adds.                                                           *)
(***************************************************************************)

\* Largest top_n asked for.
MaxTopN == 2

DefaultRrfK == 60

\* The Document objects: A and A2 are two objects for one chunk (the sparse and
\* the dense search each build their own Document), B is another chunk.
Objs == {"A", "A2", "B"}

page_content(o) == IF o = "B" THEN "y" ELSE "x"

\* The metadata the objects come with.
InitMetadata(o) ==
    IF o = "B" THEN [doc_id |-> "d2", child_index |-> 1, source |-> "s"]
    ELSE [doc_id |-> "d1", child_index |-> 0, source |-> "s"]

\* str(meta.get(f) or "") for a field that holds a string
StrOrEmpty(meta, f) == IF f \in DOMAIN meta THEN meta[f] ELSE ""

\* str(meta.get(f) or "") for a field that holds an int: 0 is falsy
IntOrEmpty(meta, f) ==
    IF f \in DOMAIN meta /\ meta[f] # 0 THEN ToString(meta[f]) ELSE ""

\* hashlib.sha1(content).hexdigest(): one digest per content
sha1(content) == "sha1(" \o content \o ")"

\* A faulty variant of the key: it also reads the fused score that an earlier
\* call left in the metadata.
_stable_doc_key_with_score(meta, content) ==
    StrOrEmpty(meta, "type") \o "|" \o StrOrEmpty(meta, "doc_id") \o "|"
        \o StrOrEmpty(meta, "parent_chunk_id") \o "|"
        \o IntOrEmpty(meta, "child_index") \o "|"
        \o StrOrEmpty(meta, "source") \o "|"
        \o IntOrEmpty(meta, "retrieval_rrf_score") \o "|" \o sha1(content)

\* hybrid_retriever_service.py: _stable_doc_key
_stable_doc_key(meta, content) ==
    StrOrEmpty(meta, "type") \o "|" \o StrOrEmpty(meta, "doc_id") \o "|"
        \o StrOrEmpty(meta, "parent_chunk_id") \o "|"
        \o IntOrEmpty(meta, "child_index") \o "|"
        \o StrOrEmpty(meta, "source") \o "|" \o sha1(content)

KeyOf(h, o) == _stable_doc_key(h[o], page_content(o))

\* The (sparse_docs, dense_docs) pairs handed to _rrf_fuse: the same two chunks in
\* opposite orders, as the same objects and as different objects; a list that
\* holds one chunk twice; a chunk in one list only; empty lists.
RankedPairs ==
    { << <<"A", "B">>, <<"B", "A">> >>,
      << <<"A", "B">>, <<"B", "A2">> >>,
      << <<"A", "A2">>, <<"B">> >>,
      << <<"B">>, <<>> >>,
      << <<>>, <<"A2", "B">> >>,
      << <<"A2">>, <<"A">> >>,
      << <<>>, <<>> >> }

\* The length of the longest ranked list.
MaxListLen ==
    CHOOSE n \in 0 .. 8 :
        /\ \A p \in RankedPairs : Len(p[1]) <= n /\ Len(p[2]) <= n
        /\ \E p \in RankedPairs : Len(p[1]) = n \/ Len(p[2]) = n

\* The product of rrf_k + rank over the ranks of the model: the unit in which
\* 1.0 / (rrf_k + rank) is a whole number.
RECURSIVE RrfUnitUpTo(_, _)
RrfUnitUpTo(rrf_k, r) == IF r = 0 THEN 1 ELSE (rrf_k + r) * RrfUnitUpTo(rrf_k, r - 1)

RrfUnit(rrf_k) == RrfUnitUpTo(rrf_k, MaxListLen)

\* A faulty variant of the contribution: the rank counts from 0.
Contribution_rank0(weight, rrf_k, rank) ==
    weight * (RrfUnit(rrf_k) \div (rrf_k + rank - 1))

\* line 79: float(weight) * (1.0 / (rrf_k + rank))
Contribution(weight, rrf_k, rank) == weight * (RrfUnit(rrf_k) \div (rrf_k + rank))

\* lines 75-76: the visits of the double loop, in order
Visits(ranked_lists) ==
    ConcatAll([l \in 1 .. Len(ranked_lists) |->
                 [r \in 1 .. Len(ranked_lists[l].docs) |->
                     [name |-> ranked_lists[l].name, rank |-> r,
                      doc |-> ranked_lists[l].docs[r],
                      weight |-> ranked_lists[l].weight]]])

\* lines 77-80: scores, best_doc and ranks after the double loop; the keys of
\* scores are kept in the order in which they were inserted
accumulate(h, ranked_lists, rrf_k) ==
    LET vs == Visits(ranked_lists)
        keyAt(i) == KeyOf(h, vs[i].doc)
        order == Distinct([i \in 1 .. Len(vs) |-> keyAt(i)], {})
        at(key) == {i \in 1 .. Len(vs) : keyAt(i) = key}
        first(S) == CHOOSE i \in S : \A j \in S : i <= j
        last(S) == CHOOSE i \in S : \A j \in S : i >= j
    IN  [order |-> order,
         scores |-> [key \in {order[i] : i \in 1 .. Len(order)} |->
                        SumSeq([i \in 1 .. Len(vs) |->
                                   IF keyAt(i) = key
                                   THEN Contribution(vs[i].weight, rrf_k, vs[i].rank)
                                   ELSE 0])],
         best_doc |-> [key \in {order[i] : i \in 1 .. Len(order)} |->
                          vs[first(at(key))].doc],
         ranks |-> [key \in {order[i] : i \in 1 .. Len(order)} |->
                       LET names == {vs[i].name : i \in at(key)}
                       IN  [n \in names |->
                               vs[last({i \in at(key) : vs[i].name = n})].rank]]]

\* line 83: sorted(scores.items(), key=score, reverse=True): a stable sort, equal
\* scores stay in insertion order
RECURSIVE sorted_desc(_, _)
sorted_desc(order, scores) ==
    IF order = <<>> THEN <<>>
    ELSE LET best == CHOOSE i \in 1 .. Len(order) :
                        /\ \A j \in 1 .. Len(order) : scores[order[i]] >= scores[order[j]]
                        /\ \A j \in 1 .. i - 1 : scores[order[j]] < scores[order[i]]
         IN  <<order[best]>>
                 \o sorted_desc(SubSeq(order, 1, best - 1)
                                    \o SubSeq(order, best + 1, Len(order)), scores)

rank_field(name) == "retrieval_" \o name \o "_rank"

\* lines 87-92: the metadata the representative of key gets
fused_metadata(meta, acc, key, ranked_lists) ==
    LET names == {ranked_lists[l].name : l \in 1 .. Len(ranked_lists)}
        present == {n \in names : n \in DOMAIN acc.ranks[key]}
        fields == (DOMAIN meta) \cup {"retrieval_rrf_score"}
                      \cup {rank_field(n) : n \in present}
    IN  [f \in fields |->
            IF \E n \in present : f = rank_field(n)
            THEN acc.ranks[key][CHOOSE n \in present : f = rank_field(n)]
            ELSE IF f = "retrieval_rrf_score" THEN acc.scores[key]
            ELSE meta[f]]

\* hybrid_retriever_service.py: _rrf_fuse on the heap h; out is the list returned,
\* heap the Document objects after the call
_rrf_fuse(h, ranked_lists, rrf_k, top_n) ==
    LET acc == accumulate(h, ranked_lists, rrf_k)
        top == Take(sorted_desc(acc.order, acc.scores), top_n)
        chosen == {top[i] : i \in 1 .. Len(top)}
    IN  [out |-> [i \in 1 .. Len(top) |-> acc.best_doc[top[i]]],
         keys |-> top,
         heap |-> [o \in DOMAIN h |->
                     IF \E key \in chosen : acc.best_doc[key] = o
                     THEN fused_metadata(h[o], acc,
                                         CHOOSE key \in chosen : acc.best_doc[key] = o,
                                         ranked_lists)
                     ELSE h[o]]]

\* (w_sparse, w_dense) in units of 0.5: the default (0.5, 0.5) and (0.5, 1.0)
WeightPairs == {<<1, 1>>, <<1, 2>>}

RrfKs == {1, DefaultRrfK}

TopNs == 1 .. MaxTopN

InitRRF ==
    /\ rrf_config \in [rrf_k : RrfKs, weights : WeightPairs]
    /\ heap = [o \in Objs |-> InitMetadata(o)]
    /\ fuseCall = [valid |-> FALSE]

\* The fusion stage before any call, while another part is under study.
IdleRRF ==
    /\ rrf_config = [rrf_k |-> DefaultRrfK, weights |-> <<1, 1>>]
    /\ heap = [o \in Objs |-> InitMetadata(o)]
    /\ fuseCall = [valid |-> FALSE]

\* lines 191-198 and 236-243: the call made by retrieve_candidates in hybrid mode
Fuse ==
    /\ \E p \in RankedPairs, top_n \in TopNs :
          LET w == rrf_config.weights
              rrf_k == rrf_config.rrf_k
              ranked_lists == << [name |-> "sparse", docs |-> p[1], weight |-> w[1]],
                                 [name |-> "dense", docs |-> p[2], weight |-> w[2]] >>
              res == _rrf_fuse(heap, ranked_lists, rrf_k, top_n)
          IN  /\ heap' = res.heap
              /\ fuseCall' = [valid |-> TRUE, ranked_lists |-> ranked_lists,
                              rrf_k |-> rrf_k, top_n |-> top_n,
                              out |-> res.out, keys |-> res.keys]
    /\ UNCHANGED rrf_config
    /\ UNCHANGED notRRF

NextRRF == Fuse

(***************************************************************************)
(* Part V.  The reranker (app/runtime/llm/reranker.py)                     *)
(*                                                                         *)
(* The model collaborator is the loader functions of component_loader and  *)
(* the loaded model's scoring call; what it does in one rerank call is an  *)
(* input of the call: the load succeeds or raises, the scoring returns one *)
(* score per document or raises.                                           *)
(***************************************************************************)

\* Longest document list handed to rerank.
MaxRerankDocs == 2
\* Largest top_k asked of rerank.
MaxRerankK == 2

Backends == {"transformers", "sentence_transformers"}

\* What the loaded transformers model offers: compute_score, predict, or only
\* __call__ (sequence classification with a tokenizer).
ModelKinds == {"compute_score", "predict", "call"}

\* What the loaders do when called: all succeed, the model loader raises, or the
\* model loads and the tokenizer loader raises.
LoadOutcomes == {"ok", "raise", "raise_tokenizer"}

RerankScores == {0, 1, 2}

RECURSIVE SeqsOfLen(_, _)
SeqsOfLen(S, n) ==
    IF n = 0 THEN {<<>>}
    ELSE {Append(q, x) : q \in SeqsOfLen(S, n - 1), x \in S}

\* The document lists: "d1", "d2", ... in order.
RerankDocLists == {[i \in 1 .. n |-> "d" \o ToString(i)] : n \in 0 .. MaxRerankDocs}

\* What the scoring call does: raises, or returns one score per document.
ScoreOutcomes(n) ==
    {[raised |-> TRUE, scores |-> <<>>]}
        \cup {[raised |-> FALSE, scores |-> s] : s \in SeqsOfLen(RerankScores, n)}

\* reranker.py lines 124, 143, 174, 183: the documents in their order, score 0.0
neutral_scores(docs, top_k) ==
    Take([i \in 1 .. Len(docs) |-> [doc |-> docs[i], score |-> 0, index |-> i - 1]], top_k)

\* reranker.py lines 138-140 (156-158, 169-171, 178-180): the scored documents,
\* sorted by score descending (stable), cut to top_k
ranked_scores(docs, scores, top_k) ==
    LET order == sorted_desc([i \in 1 .. Len(docs) |-> i], scores)
    IN  Take([j \in 1 .. Len(order) |->
                [doc |-> docs[order[j]], score |-> scores[order[j]],
                 index |-> order[j] - 1]], top_k)

\* reranker.py: ModelReranker._load_model; the loaders are called only while
\* nothing is loaded, and an exception of theirs is raised again
_load_model(rr, load) ==
    IF rr.disabled THEN [raised |-> FALSE, rr |-> rr]
    ELSE IF rr.backend = "sentence_transformers"
    THEN IF rr.cross_encoder THEN [raised |-> FALSE, rr |-> rr]
         ELSE IF load = "ok"
         THEN [raised |-> FALSE, rr |-> [rr EXCEPT !.cross_encoder = TRUE]]
         ELSE [raised |-> TRUE, rr |-> rr]
    ELSE IF rr.model THEN [raised |-> FALSE, rr |-> rr]
    ELSE IF load = "ok"
    THEN [raised |-> FALSE, rr |-> [rr EXCEPT !.model = TRUE, !.tokenizer = TRUE]]
    ELSE IF load = "raise_tokenizer"
    THEN [raised |-> TRUE, rr |-> [rr EXCEPT !.model = TRUE]]
    ELSE [raised |-> TRUE, rr |-> rr]

\* reranker.py: ModelReranker.rerank; raised says that the call ends in an
\* exception, scored that the scoring call of the model was made
rerank(rr, docs, top_k, load, sc) ==
    IF docs = <<>>
    THEN [raised |-> FALSE, scored |-> FALSE, loaded |-> FALSE, result |-> <<>>, rr |-> rr]
    ELSE IF rr.disabled
    THEN [raised |-> FALSE, scored |-> FALSE, loaded |-> FALSE,
          result |-> neutral_scores(docs, top_k), rr |-> rr]
    ELSE LET ld == _load_model(rr, load)
             called == ld.rr # rr \/ ld.raised
         IN  IF ld.raised
             THEN [raised |-> TRUE, scored |-> FALSE, loaded |-> called,
                   result |-> <<>>, rr |-> ld.rr]
             ELSE IF /\ ld.rr.backend = "transformers"
                     /\ ld.rr.kind = "call"
                     /\ ~ld.rr.tokenizer
             THEN [raised |-> FALSE, scored |-> FALSE, loaded |-> called,
                   result |-> neutral_scores(docs, top_k), rr |-> ld.rr]
             ELSE [raised |-> FALSE, scored |-> TRUE, loaded |-> called,
                   result |-> IF sc.raised THEN neutral_scores(docs, top_k)
                              ELSE ranked_scores(docs, sc.scores, top_k),
                   rr |-> ld.rr]

\* No _score_single_with_windows call is under study.
NoWindowCall == [valid |-> FALSE]

InitRerank ==
    /\ reranker \in [disabled : BOOLEAN, backend : Backends, kind : ModelKinds,
                     model : {FALSE}, tokenizer : {FALSE}, cross_encoder : {FALSE}]
    /\ rerankCall = [valid |-> FALSE]
    /\ windowCall = NoWindowCall

\* The reranker before any call, while another part is under study.
IdleRerank ==
    /\ reranker = [disabled |-> TRUE, backend |-> "transformers", kind |-> "call",
                   model |-> FALSE, tokenizer |-> FALSE, cross_encoder |-> FALSE]
    /\ rerankCall = [valid |-> FALSE]
    /\ windowCall = NoWindowCall

\* One call of ModelReranker.rerank.
Rerank ==
    /\ \E docs \in RerankDocLists, top_k \in 0 .. MaxRerankK, load \in LoadOutcomes :
          \E sc \in ScoreOutcomes(Len(docs)) :
              LET res == rerank(reranker, docs, top_k, load, sc)
              IN  /\ reranker' = res.rr
                  /\ rerankCall' = [valid |-> TRUE, documents |-> docs, top_k |-> top_k,
                                    load_raised |-> res.loaded /\ load # "ok",
                                    score_raised |-> res.scored /\ sc.raised,
                                    raised |-> res.raised, result |-> res.result]
    /\ UNCHANGED windowCall
    /\ UNCHANGED notRerank

NextRerank == Rerank

\* Most tokens of a document scored with windows.
MaxTokens == 4
\* Largest window_size configured.
MaxWindow == 3

\* The scores the model gives a window (logits: negative ones included).
WindowScores == {-1, 0, 2}

\* What the tokenizer returns for the document: a dict, or a mapping that is no
\* dict (transformers' BatchEncoding, a UserDict, is what the tokenizer that
\* load_transformers_tokenizer loads returns).
TokenizerOutputs == {"dict", "BatchEncoding"}

\* reranker.py lines 234-242: the loop from start on over a document of n tokens;
\* scores[s + 1] is the score the model gives the window that starts at token s;
\* acc holds the best score so far and the starts of the windows scored
RECURSIVE window_loop(_, _, _, _, _, _)
window_loop(start, n, window_size, stride, scores, acc) ==
    IF start >= n THEN acc
    ELSE LET window_score == scores[start + 1]
             now == [best |-> IF acc.windows = <<>> THEN window_score ELSE Max(acc.best, window_score),
                     windows |-> Append(acc.windows, start)]
         IN  IF start + window_size >= n THEN now
             ELSE window_loop(start + stride, n, window_size, stride, scores, now)

\* reranker.py: _score_single_with_windows; the result and the windows scored
_score_single_with_windows(tokens, n, window_size, stride, scores) ==
    IF tokens # "dict" \/ n = 0 THEN [score |-> 0, windows |-> <<>>]
    ELSE LET acc == window_loop(0, n, window_size, stride, scores,
                                [best |-> 0, windows |-> <<>>])
         IN  [score |-> IF acc.windows = <<>> THEN 0 ELSE acc.best,
              windows |-> acc.windows]

\* reranker.py line 188: stride = self._stride or self._window_size (a stride of
\* None or 0 is the window size)
effective_stride(stride, window_size) == IF stride = 0 THEN window_size ELSE stride

\* The calls: window_size > 0 (line 187), any stride from 0 (or None) up, a
\* document of up to MaxTokens tokens and a score for the window at each start.
InitWindows ==
    /\ reranker = [disabled |-> FALSE, backend |-> "transformers", kind |-> "call",
                   model |-> TRUE, tokenizer |-> TRUE, cross_encoder |-> FALSE]
    /\ rerankCall = [valid |-> FALSE]
    /\ \E n \in 0 .. MaxTokens :
          windowCall \in [valid : {FALSE}, tokens : TokenizerOutputs, n : {n},
                          window_size : 1 .. MaxWindow, stride : 0 .. MaxWindow + 1,
                          scores : SeqsOfLen(WindowScores, n)]

\* One document scored by _score_pairs_transformers with windows.
ScoreWithWindows ==
    /\ ~windowCall.valid
    /\ "tokens" \in DOMAIN windowCall
    /\ \E res \in {_score_single_with_windows(
                       windowCall.tokens, windowCall.n, windowCall.window_size,
                       effective_stride(windowCall.stride, windowCall.window_size),
                       windowCall.scores)} :
          windowCall' = [windowCall EXCEPT !.valid = TRUE] @@ 
                            [score |-> res.score, windows |-> res.windows]
    /\ UNCHANGED <<reranker, rerankCall>>
    /\ UNCHANGED notRerank

NextWindows == ScoreWithWindows


(***************************************************************************)
(* Part VI.  Parent restoration (RAGEngine.restore_parents,                *)
(*           app/skills/rag/rag_engine.py)                                 *)
(*                                                                         *)
(* A scored child is a record: its name, the parent_chunk_id of its        *)
(* metadata (absent, an int, a numeric string, or a value int() rejects)   *)
(* and its rerank_score.  The parent store is the set of parent ids it     *)
(* resolves; whether the schema check passes and whether the fetch raises  *)
(* are inputs of the call.                                                 *)
(***************************************************************************)

\* Largest k asked of restore_parents.
MaxRestoreK == 2

NoParent == [kind |-> "none", val |-> 0]
BadParent == [kind |-> "bad", val |-> 0]
IntParent(p) == [kind |-> "int", val |-> p]
StrParent(p) == [kind |-> "str", val |-> p]

Child(name, pid, rerank_score) ==
    [type |-> "doc_child", name |-> name, pid |-> pid, score |-> rerank_score]

\* The lists of scored children handed to restore_parents: more distinct
\* parents than k, a parent met again with a higher score and as a string,
\* children without a usable parent id, the empty list.
ChildLists ==
    { <<>>,
      << Child("c1", IntParent(1), 2), Child("c2", IntParent(2), 1),
         Child("c3", StrParent(1), 3), Child("c4", IntParent(3), 0) >>,
      << Child("c1", NoParent, 1), Child("c2", IntParent(1), 2) >>,
      << Child("c1", BadParent, 2), Child("c2", IntParent(2), 2),
         Child("c3", IntParent(2), 1) >>,
      << Child("c1", IntParent(1), 1), Child("c2", IntParent(2), 2),
         Child("c3", IntParent(3), 3) >> }

\* The parent ids the store resolves.
StoreContents == { {1, 2, 3}, {2}, {} }

\* rag_engine.py lines 323-331: the child has a parent id that int() accepts
has_parent(doc) == doc.pid.kind \in {"int", "str"}

\* lines 320-336: the children kept as they are
fallback_docs(docs) == SelectSeq(docs, LAMBDA d : ~has_parent(d))

\* lines 332-334: the distinct parent ids in first-seen order
parent_order(docs) ==
    LET withParent == SelectSeq(docs, has_parent)
    IN  Distinct([i \in 1 .. Len(withParent) |-> withParent[i].pid.val], {})

\* A faulty variant of the parent score: the score of the first child met.
parent_scores_first(docs, p) ==
    LET mine == {i \in 1 .. Len(docs) : has_parent(docs[i]) /\ docs[i].pid.val = p}
    IN  docs[CHOOSE i \in mine : \A j \in mine : i <= j].score

\* lines 333 and 336: the maximum score over the children of the parent
parent_scores(docs, p) ==
    LET mine == {i \in 1 .. Len(docs) : has_parent(docs[i]) /\ docs[i].pid.val = p}
    IN  docs[CHOOSE i \in mine : \A j \in mine : docs[i].score >= docs[j].score].score

\* A faulty variant of the cut: every parent id is fetched.
fetch_ids_all(order, k) == order

\* line 340: parent_order[:k]
fetch_ids(order, k) == Take(order, k)

\* stores.py: MySQLDocStore.fetch_parent_chunks: the rows found, in the order
\* of the ids asked for
fetch_parent_chunks(store, ids) == SelectSeq(ids, LAMBDA p : p \in store)

\* lines 346-357: the Document built for a fetched parent
ParentDoc(docs, p) ==
    [type |-> "doc_parent", name |-> "parent", pid |-> IntParent(p),
     score |-> parent_scores(docs, p)]

\* line 361: out.sort(key=rerank_score, reverse=True), a stable sort
sort_by_rerank_score(out) ==
    LET order == sorted_desc([i \in 1 .. Len(out) |-> i],
                             [i \in 1 .. Len(out) |-> out[i].score])
    IN  [j \in 1 .. Len(order) |-> out[order[j]]]

\* rag_engine.py: RAGEngine.restore_parents; fetched is the list of the id lists
\* the parent store was asked for
restore_parents(docs, k, available, store, fetch_raises) ==
    IF docs = <<>> THEN [result |-> <<>>, fetched |-> <<>>]
    ELSE IF ~available THEN [result |-> Take(docs, k), fetched |-> <<>>]
    ELSE LET order == parent_order(docs)
             ids == fetch_ids(order, k)
             parents == IF order = <<>> \/ fetch_raises THEN <<>>
                        ELSE fetch_parent_chunks(store, ids)
             out == fallback_docs(docs)
                        \o [i \in 1 .. Len(parents) |-> ParentDoc(docs, parents[i])]
         IN  [result |-> Take(sort_by_rerank_score(out), k),
              fetched |-> IF order = <<>> THEN <<>> ELSE <<ids>>]

InitRestore == restoreCall = [valid |-> FALSE]

\* One call of RAGEngine.restore_parents.
RestoreParents ==
    /\ \E docs \in ChildLists, k \in 0 .. MaxRestoreK, available \in BOOLEAN,
          store \in StoreContents, fetch_raises \in BOOLEAN :
          LET res == restore_parents(docs, k, available, store, fetch_raises)
          IN  restoreCall' = [valid |-> TRUE, docs |-> docs, k |-> k,
                              available |-> available, store |-> store,
                              fetch_raised |-> fetch_raises /\ res.fetched # <<>>
                                                  /\ res.fetched # << <<>> >>,
                              result |-> res.result, fetched |-> res.fetched]
    /\ UNCHANGED notRestore

NextRestore == RestoreParents

(***************************************************************************)
(* Part VII.  The Grade step and the grader model's output                 *)
(*            (app/skills/common/grader.py,                                *)
(*             app/runtime/llm/structured_output.py,                       *)
(*             app/infrastructure/utils/json_parser.py)                    *)
(*                                                                         *)
(* What the model answers is an input of the step.  A raw answer is a JSON *)
(* text in a wrapping: plain, in a ```json fence, after a <think> block,   *)
(* or inside prose.  The JSON text is an object (a dict of fields), a      *)
(* list, a number, or no JSON at all.                                      *)
(***************************************************************************)

\* The rewrite instruction of fallback_data and of the except branch.
GenericRewrite == "generic_rewrite_instruction"

\* grader.py lines 100-106: fallback_data
fallback_data ==
    [verdict |-> "rewrite", reasoning |-> "grader_fallback",
     issues |-> <<"grader_error">>, rewrite_instructions |-> GenericRewrite,
     search_query |-> "None"]

\* The objects the model may answer with: two that fit the schema, one with
\* rewrite instructions of its own, one with a verdict outside the Literal, one
\* without the required reasoning.
JsonObjects ==
    { [verdict |-> "accept", reasoning |-> "r"],
      [verdict |-> "search", reasoning |-> "r"],
      [verdict |-> "rewrite", reasoning |-> "r", rewrite_instructions |-> "fix"],
      [verdict |-> "maybe", reasoning |-> "r"],
      [verdict |-> "accept"] }

Wrappings == {"plain", "fenced", "think", "prose"}

\* What one call of the chat model gives: an exception, or a text.
RawOutputs ==
    {[call |-> "raises", wrap |-> "plain", json |-> "none", data |-> [issues |-> <<>>]]}
        \cup {[call |-> "ok", wrap |-> w, json |-> "object", data |-> d] :
                 w \in Wrappings, d \in JsonObjects}
        \cup {[call |-> "ok", wrap |-> w, json |-> j, data |-> [issues |-> <<>>]] :
                 w \in Wrappings, j \in {"list", "number", "none"}}

\* The answer of a call that the step did not make.
NotCalled == [call |-> "not_called", wrap |-> "plain", json |-> "none", data |-> [issues |-> <<>>]]

\* What chain.invoke gives with with_structured_output: a GraderResult, something
\* else, an exception; "absent": the llm has no with_structured_output.
StructuredOutputs ==
    {[kind |-> k, verdict |-> "accept"] : k \in {"other", "raises", "absent"}}
        \cup {[kind |-> "instance", verdict |-> v] : v \in Verdicts}

\* json_parser.py: parse_json_from_llm.  The <think> block and the fences are
\* removed; json.loads takes the whole text; failing that, the first {...} is
\* tried, then the first [...].  kind "error" is the ValueError.
parse_json_from_llm(raw) ==
    IF raw.wrap # "prose"
    THEN IF raw.json = "object" THEN [kind |-> "dict", data |-> raw.data]
         ELSE IF raw.json = "list" THEN [kind |-> "list", data |-> raw.data]
         ELSE IF raw.json = "number" THEN [kind |-> "number", data |-> raw.data]
         ELSE [kind |-> "error", data |-> raw.data]
    ELSE IF raw.json = "object" THEN [kind |-> "dict", data |-> raw.data]
         ELSE IF raw.json = "list" THEN [kind |-> "list", data |-> raw.data]
         ELSE [kind |-> "error", data |-> raw.data]

\* A faulty variant of the schema: any verdict string is taken.
schema_valid_any_verdict(data) ==
    "verdict" \in DOMAIN data /\ "reasoning" \in DOMAIN data

\* grader.py lines 19-24: GraderResult(**data) validates
schema_valid(data) ==
    /\ "verdict" \in DOMAIN data
    /\ data.verdict \in Verdicts
    /\ "reasoning" \in DOMAIN data

\* GraderResult(**data): the fields given, the defaults for the others
GraderResult(data) ==
    [verdict |-> data.verdict, reasoning |-> data.reasoning,
     issues |-> IF "issues" \in DOMAIN data THEN data.issues ELSE <<>>,
     rewrite_instructions |-> IF "rewrite_instructions" \in DOMAIN data
                              THEN data.rewrite_instructions ELSE "None",
     search_query |-> IF "search_query" \in DOMAIN data
                      THEN data.search_query ELSE "None"]

Raised == [raised |-> TRUE, result |-> GraderResult(fallback_data)]
Returned_(result) == [raised |-> FALSE, result |-> result]

\* structured_output.py lines 59-65: the plain chain and the parse of its answer
invoke_raw(raw) ==
    IF raw.call = "raises" THEN Raised
    ELSE LET data == parse_json_from_llm(raw)
         IN  IF data.kind = "error" THEN Raised
             ELSE IF data.kind = "dict"
             THEN IF schema_valid(data.data) THEN Returned_(GraderResult(data.data))
                  ELSE Raised
             ELSE Returned_(GraderResult(fallback_data))

\* structured_output.py lines 46-65: _invoke_with_llm
_invoke_with_llm(use_with_structured, s, raw) ==
    IF use_with_structured /\ s.kind = "instance"
    THEN Returned_(GraderResult([verdict |-> s.verdict, reasoning |-> "r"]))
    ELSE invoke_raw(raw)

\* structured_output.py lines 67-73: _fallback_model
_fallback_model == GraderResult(fallback_data)

\* structured_output.py lines 75-83: invoke_structured never raises
invoke_structured(mode, s, raw1, raw2) ==
    IF mode = "prompt_only"
    THEN LET a == _invoke_with_llm(FALSE, s, raw1)
         IN  IF a.raised THEN _fallback_model ELSE a.result
    ELSE LET a == _invoke_with_llm(TRUE, s, raw1)
             b == _invoke_with_llm(FALSE, s, raw2)
         IN  IF ~a.raised THEN a.result
             ELSE IF ~b.raised THEN b.result
             ELSE _fallback_model

\* grader.py lines 140-146: the grade of the except branch
exception_grade ==
    [verdict |-> "rewrite", reasoning |-> "Error", issues |-> <<"grader_exception">>,
     rewrite_instructions |-> GenericRewrite, search_query |-> "None"]

\* grader.py lines 95-154: the body of grader_node; node_raises: a statement of
\* the try block other than the model calls raises
grade_step(mode, s, raw1, raw2, node_raises) ==
    IF node_raises
    THEN [raised |-> FALSE, grade |-> exception_grade, counted |-> FALSE]
    ELSE LET result == invoke_structured(mode, s, raw1, raw2)
         IN  [raised |-> FALSE, grade |-> result, counted |-> result.verdict # "accept"]

StructuredModes == {"native_first", "prompt_only"}

InitGrade == gradeCall = [valid |-> FALSE]

\* One execution of grader_node.  The model is asked only as often as the code
\* asks it: with_structured_output in native_first mode, the plain chain unless
\* that gave a GraderResult, the plain chain again after a failed first attempt.
GradeStep ==
    /\ \E mode \in StructuredModes, node_raises \in BOOLEAN :
       \E s \in IF mode = "native_first" /\ ~node_raises THEN StructuredOutputs
                 ELSE {[kind |-> "absent", verdict |-> "accept"]} :
       \E raw1 \in IF s.kind = "instance" \/ node_raises THEN {NotCalled} ELSE RawOutputs :
       \E raw2 \in IF /\ mode = "native_first"
                       /\ raw1 # NotCalled
                       /\ _invoke_with_llm(TRUE, s, raw1).raised
                    THEN RawOutputs ELSE {NotCalled} :
       \E res \in {grade_step(mode, s, raw1, raw2, node_raises)} :
              gradeCall' = [valid |-> TRUE, mode |-> mode, structured |-> s,
                            raw1 |-> raw1, raw2 |-> raw2, node_raises |-> node_raises,
                            raised |-> res.raised, grade |-> res.grade]
    /\ UNCHANGED notGrade

NextGrade == GradeStep

(***************************************************************************)
(* Part VIII.  The document steps of a turn                                *)
(*             (app/skills/rag/retrieve_docs.py, rerank_docs.py,           *)
(*              RAGEngine.retrieve_candidates and                          *)
(*              HybridRetrieverService.retrieve_candidates)                *)
(*                                                                         *)
(* The vector store is known by the signatures of its two searches:        *)
(* whether similarity_search and sparse_search take a filter keyword, and  *)
(* whether sparse_search exists at all.  What the store ranks for the      *)
(* query, whether a search fails (database or embedding model down) and    *)
(* what the reranker model and the parent store do are inputs of the step  *)
(* that calls them.  A node that raises ends the run of the graph: no node *)
(* is wrapped (registry.py, graph.py) and the server answers with an error.*)
(***************************************************************************)

DefaultCandidateK == 20

DefaultFinalK == 3

\* state["user_id"] of the turn: a user, or none
Users == {"u1", "u2"}

NoUser == "None"

\* The filter argument: None, or {"user_id": u} written as u.
NoFilter == "None"

\* The owner recorded in the metadata of the stored chunks.
owner(o) == IF o = "B" THEN "u2" ELSE "u1"

\* The metadata of the Document a search builds for a stored row: chunk d1 has
\* a parent chunk, chunk d2 has none.
RowMetadata(o) ==
    IF o = "B"
    THEN [doc_id |-> "d2", child_index |-> 1, source |-> "s", user_id |-> owner(o)]
    ELSE [doc_id |-> "d1", child_index |-> 0, source |-> "s", user_id |-> owner(o),
          parent_chunk_id |-> "1"]

\* pgvector_vectorstore.py: PgVectorVectorStore; similarity_search(query, k) and
\* sparse_search(query, k) take no filter keyword
PgVectorVectorStore == [present |-> TRUE, dense_filter |-> FALSE, sparse |-> "plain"]

\* RAGEngine._vectorstore after a failed construction
NoVectorStore == [present |-> FALSE, dense_filter |-> FALSE, sparse |-> "absent"]

\* The stores HybridRetrieverService is written for: the repository's own, none,
\* a store whose searches both take the filter (the mock of the tests), one whose
\* sparse_search does not, and one without sparse_search (in-memory BM25).
VectorStores ==
    {PgVectorVectorStore, NoVectorStore}
        \cup {[present |-> TRUE, dense_filter |-> TRUE, sparse |-> s] :
                 s \in {"filter", "plain", "absent"}}

\* stores.py dense_search / sparse_search with a filter: the rows of that owner
filtered(docs, filter) ==
    IF filter = NoFilter THEN docs ELSE SelectSeq(docs, LAMBDA o : owner(o) = filter)

SearchRaised(err) == [raised |-> TRUE, error |-> err, docs |-> <<>>, applied |-> NoFilter]

SearchReturned(docs, applied) ==
    [raised |-> FALSE, error |-> "none", docs |-> docs, applied |-> applied]

\* vectorstore.similarity_search(query, k=dense_k, filter=filter): a signature
\* without the keyword raises TypeError before the body runs
similarity_search(vs, ranked, k, filter, fails) ==
    IF ~vs.dense_filter THEN SearchRaised("TypeError")
    ELSE IF fails THEN SearchRaised("Exception")
    ELSE SearchReturned(Take(filtered(ranked, filter), k), filter)

\* vectorstore.sparse_search(query, k=sparse_k, filter=filter)
sparse_search_filter(vs, ranked, k, filter, fails) ==
    IF vs.sparse = "plain" THEN SearchRaised("TypeError")
    ELSE IF fails THEN SearchRaised("Exception")
    ELSE SearchReturned(Take(filtered(ranked, filter), k), filter)

\* vectorstore.sparse_search(query, k=sparse_k)
sparse_search(vs, ranked, k, fails) ==
    IF fails THEN SearchRaised("Exception")
    ELSE SearchReturned(Take(ranked, k), NoFilter)

\* hybrid_retriever_service.py lines 182-189: with the filter, and without it
\* after a TypeError
sparse_with_fallback(vs, ranked, k, filter, fails) ==
    LET first == sparse_search_filter(vs, ranked, k, filter, fails)
    IN  IF first.raised /\ first.error = "TypeError"
        THEN sparse_search(vs, ranked, k, fails)
        ELSE first

\* lines 217-234: the in-memory BM25 over all documents, filtered afterwards
bm25_filtered(ranked, k, filter) == SearchReturned(Take(filtered(ranked, filter), k), filter)

\* lines 202-206: the dense list with its ranks
dense_ranked(h, dense_docs) ==
    [o \in DOMAIN h |->
        IF \E i \in 1 .. Len(dense_docs) : dense_docs[i] = o
        THEN LET last == CHOOSE i \in 1 .. Len(dense_docs) :
                            /\ dense_docs[i] = o
                            /\ \A j \in 1 .. Len(dense_docs) : dense_docs[j] = o => j <= i
             IN  [f \in DOMAIN h[o] \cup {"retrieval_dense_rank"} |->
                     IF f = "retrieval_dense_rank" THEN last ELSE h[o][f]]
        ELSE h[o]]

RetrieveRaised(err, dense) ==
    [raised |-> TRUE, error |-> err, out |-> <<>>, owners |-> <<>>,
     dense_filter |-> dense, sparse_filter |-> "NotSearched"]

RetrieveReturned(out, h, dense, sparse) ==
    [raised |-> FALSE, error |-> "none", out |-> out,
     owners |-> [i \in 1 .. Len(out) |-> h[out[i]].user_id],
     dense_filter |-> dense, sparse_filter |-> sparse]

\* HybridRetrieverService.retrieve_candidates with the default
\* HybridRetrievalConfig (mode "hybrid"): ranked is what the store ranks for the
\* query, <<sparse, dense>>
hybrid_retrieve_candidates(vs, ranked, filter, dense_fails, sparse_fails, has_bm25) ==
    LET h == [o \in Objs |-> RowMetadata(o)]
        k == DefaultCandidateK
        dense == similarity_search(vs, ranked[2], k, filter, dense_fails)
        fuse(sparse_docs) ==
            _rrf_fuse(h, << [name |-> "sparse", docs |-> sparse_docs, weight |-> 1],
                            [name |-> "dense", docs |-> dense.docs, weight |-> 1] >>,
                      DefaultRrfK, k)
    IN  IF dense.raised THEN RetrieveRaised(dense.error, "NotSearched")
        ELSE IF vs.sparse # "absent"
        THEN LET sparse == sparse_with_fallback(vs, ranked[1], k, filter, sparse_fails)
             IN  IF sparse.raised THEN RetrieveRaised(sparse.error, dense.applied)
                 ELSE RetrieveReturned(fuse(sparse.docs).out, fuse(sparse.docs).heap,
                                       dense.applied, sparse.applied)
        ELSE IF ~has_bm25
        THEN RetrieveReturned(Take(dense.docs, k), dense_ranked(h, dense.docs),
                              dense.applied, "NotSearched")
        ELSE LET sparse == bm25_filtered(ranked[1], k, filter)
             IN  RetrieveReturned(fuse(sparse.docs).out, fuse(sparse.docs).heap,
                                  dense.applied, sparse.applied)

\* rag_engine.py line 259: {"user_id": user_id} if user_id else None
filter_dict(user_id) == IF user_id = NoUser THEN NoFilter ELSE user_id

\* RAGEngine.retrieve_candidates
retrieve_candidates(vs, ranked, user_id, dense_fails, sparse_fails, has_bm25) ==
    IF ~vs.present
    THEN RetrieveReturned(<<>>, [o \in Objs |-> RowMetadata(o)], "NotSearched", "NotSearched")
    ELSE hybrid_retrieve_candidates(vs, ranked, filter_dict(user_id),
                                    dense_fails, sparse_fails, has_bm25)

\* RAGEngine.rerank_candidates: the candidates the reranker kept, as scored
\* children for restore_parents
rerank_candidates(rr, candidates, k, load, sc) ==
    IF candidates = <<>> \/ k <= 0
    THEN [raised |-> FALSE, out |-> <<>>, rr |-> rr]
    ELSE LET res == rerank(rr, [i \in 1 .. Len(candidates) |-> page_content(candidates[i])],
                           k, load, sc)
         IN  [raised |-> res.raised,
              out |-> [j \in 1 .. Len(res.result) |->
                         LET o == candidates[res.result[j].index + 1]
                         IN  Child(o, IF "parent_chunk_id" \in DOMAIN RowMetadata(o)
                                      THEN IntParent(1) ELSE NoParent,
                                   res.result[j].score)],
              rr |-> res.rr]

\* What the parent store does in one rerank_docs step: the schema check fails,
\* the fetch finds the parent, finds nothing, or raises.
ParentStoreOutcomes ==
    { [available |-> FALSE, store |-> {}, fetch_raises |-> FALSE],
      [available |-> TRUE, store |-> {1}, fetch_raises |-> FALSE],
      [available |-> TRUE, store |-> {}, fetch_raises |-> FALSE],
      [available |-> TRUE, store |-> {1}, fetch_raises |-> TRUE] }

InitTurn ==
    /\ vectorstore \in VectorStores
    /\ turn = [at |-> "retrieve_docs", error |-> "none", retrieved_docs |-> <<>>]
    /\ retrieveCall = [valid |-> FALSE]

\* The document steps while another part is under study.
IdleTurn ==
    /\ vectorstore = NoVectorStore
    /\ turn = [at |-> "idle", error |-> "none", retrieved_docs |-> <<>>]
    /\ retrieveCall = [valid |-> FALSE]

\* retrieve_docs.py: retrieve_docs_node.  An exception of retrieve_candidates
\* leaves the node and ends the run.  A failure of the sparse search is drawn
\* for a store that has one, a BM25 index for a store that has none.
RetrieveDocsNode ==
    /\ turn.at = "retrieve_docs"
    /\ \E ranked \in RankedPairs, user_id \in Users \cup {NoUser},
          dense_fails \in BOOLEAN,
          sparse_fails \in IF vectorstore.sparse = "absent" THEN {FALSE} ELSE BOOLEAN,
          has_bm25 \in IF vectorstore.sparse = "absent" THEN BOOLEAN ELSE {FALSE} :
       \E res \in {retrieve_candidates(vectorstore, ranked, user_id,
                                        dense_fails, sparse_fails, has_bm25)} :
              /\ retrieveCall' = [valid |-> TRUE, user_id |-> user_id,
                                  filter |-> filter_dict(user_id),
                                  searched |-> vectorstore.present,
                                  dense_filter |-> res.dense_filter,
                                  sparse_filter |-> res.sparse_filter,
                                  raised |-> res.raised, error |-> res.error,
                                  candidates |-> res.out, owners |-> res.owners]
              /\ turn' = IF res.raised
                         THEN [turn EXCEPT !.at = "aborted", !.error = res.error]
                         ELSE [turn EXCEPT !.at = "rerank_docs"]
    /\ UNCHANGED <<vectorstore, rerankVars>>
    /\ UNCHANGED notTurn

\* rerank_docs.py: rerank_docs_node.  rerank_candidates and restore_parents run
\* without a try: an exception of the reranker leaves the node and ends the run.
RerankDocsNode ==
    /\ turn.at = "rerank_docs"
    /\ \E load \in LoadOutcomes, parent \in ParentStoreOutcomes :
       \E sc \in ScoreOutcomes(Len(retrieveCall.candidates)) :
       \E rr \in {rerank_candidates(reranker, retrieveCall.candidates,
                                     DefaultFinalK, load, sc)} :
       \E docs \in {restore_parents(rr.out, DefaultFinalK, parent.available,
                                     parent.store, parent.fetch_raises).result} :
              /\ reranker' = rr.rr
              /\ turn' = IF rr.raised
                         THEN [turn EXCEPT !.at = "aborted", !.error = "Exception"]
                         ELSE [turn EXCEPT !.at = "assemble", !.retrieved_docs = docs]
    /\ UNCHANGED <<vectorstore, retrieveCall, rerankCall, windowCall>>
    /\ UNCHANGED notTurn

NextTurn == RetrieveDocsNode \/ RerankDocsNode

(***************************************************************************)
(* Part IX.  Persistence of the lexical index                              *)
(*           (app/skills/rag/bm25/index_builder.py)                        *)
(*                                                                         *)
(* One IndexBuilder builds and saves, a second one loads.  A file is the   *)
(* JSON text json.dump writes, known by what json.load reads back from it: *)
(* the keys of a dict come back as strings, a tuple comes back as a list,  *)
(* a number and a string come back as they were.                           *)
(***************************************************************************)

\* persist_path of a builder that was given none
NoPath == "None"

\* The directory builders save to and a directory nothing is saved to.
SavePath == "dir"
MissingPath == "nonexistent"

\* The key str(d) that json.dump writes for the int key d.  The keys of one
\* function must be comparable, so the string is written as the number
\* -(d + 1): it equals no document id, as "0" equals no int in a dict lookup.
StrKey(d) == -(d + 1)

\* json.load(json.dump(d)) of a dict with int keys
json_int_keys(d) ==
    [k \in {StrKey(x) : x \in DOMAIN d} |-> d[CHOOSE x \in DOMAIN d : StrKey(x) = k]]

\* json.load(json.dump(pl)) of the posting lists: every (doc_id, tf) tuple
\* comes back as the list [doc_id, tf]; both are sequences here
json_postings(pl) ==
    [t \in 1 .. Len(pl) |-> [i \in 1 .. Len(pl[t]) |-> <<pl[t][i][1], pl[t][i][2]>>]]

\* index_builder.py: IndexBuilder.__init__
FreshBuilder(persist_path) ==
    [index |-> EmptyIndex, documents |-> <<>>, persist_path |-> persist_path]

\* index_builder.py lines 27-41 read back by line 49: data
json_data(b) ==
    [version |-> 1,
     doc_count |-> b.index.doc_count,
     avg_doc_len |-> b.index.avg_doc_len,
     term_dict |-> b.index.term_dict,
     df |-> b.index.df,
     idf |-> b.index.idf,
     documents |-> b.documents,
     posting_lists |-> json_postings(b.index.posting_lists),
     doc_lens |-> json_int_keys(b.index.doc_lens)]

NoFile == [exists |-> FALSE]

\* index_builder.py: IndexBuilder.save on the file system fs
save(b, fs) ==
    IF b.persist_path = NoPath THEN fs
    ELSE [fs EXCEPT ![b.persist_path] = [exists |-> TRUE, data |-> json_data(b)]]

\* index_builder.py: IndexBuilder.load
load(b, fs, persist_path) ==
    IF ~fs[persist_path].exists THEN b
    ELSE LET data == fs[persist_path].data
         IN  [persist_path |-> persist_path,
              documents |-> data.documents,
              index |-> [b.index EXCEPT
                           !.doc_count = data.doc_count,
                           !.avg_doc_len = data.avg_doc_len,
                           !.term_dict = data.term_dict,
                           !.df = data.df,
                           !.idf = data.idf,
                           !.posting_lists = data.posting_lists,
                           !.doc_lens = data.doc_lens]]

InitPersist ==
    /\ builder \in {FreshBuilder(p) : p \in {NoPath, SavePath}}
    /\ built = 0
    /\ disk = [p \in {SavePath, MissingPath} |-> NoFile]
    /\ saved = FreshBuilder(NoPath)
    /\ loader = FreshBuilder(NoPath)
    /\ loadCall = [valid |-> FALSE]

\* The builders while another part is under study.
IdlePersist ==
    /\ builder = FreshBuilder(NoPath)
    /\ built = 0
    /\ disk = [p \in {SavePath, MissingPath} |-> NoFile]
    /\ saved = FreshBuilder(NoPath)
    /\ loader = FreshBuilder(NoPath)
    /\ loadCall = [valid |-> FALSE]

\* index_builder.py: IndexBuilder.build
BuildIndex ==
    /\ built < MaxBuilds
    /\ \E docs \in Corpora :
          builder' = [builder EXCEPT !.documents = docs,
                                     !.index = build(builder.index, docs)]
    /\ built' = built + 1
    /\ UNCHANGED <<disk, saved, loader, loadCall>>
    /\ UNCHANGED notPersist

\* index_builder.py: IndexBuilder.save
SaveIndex ==
    /\ disk' = save(builder, disk)
    /\ saved' = IF builder.persist_path = NoPath THEN saved ELSE builder
    /\ UNCHANGED <<builder, built, loader, loadCall>>
    /\ UNCHANGED notPersist

\* index_builder.py: IndexBuilder.load on the second builder
LoadIndex ==
    /\ \E persist_path \in {SavePath, MissingPath} :
          /\ loader' = load(loader, disk, persist_path)
          /\ loadCall' = [valid |-> TRUE, persist_path |-> persist_path,
                          found |-> disk[persist_path].exists,
                          origin |-> saved,
                          before |-> loader,
                          after |-> load(loader, disk, persist_path)]
    /\ UNCHANGED <<builder, built, disk, saved>>
    /\ UNCHANGED notPersist

NextPersist == BuildIndex \/ SaveIndex \/ LoadIndex

(***************************************************************************)
(* Part X.  The prompt builder (app/runtime/prompts/prompt_builder.py)     *)
(*                                                                         *)
(* A string is the sequence of its characters.  _truncate and              *)
(* _take_with_budget are pure: a call is drawn with its arguments in the   *)
(* initial state and made once.                                            *)
(***************************************************************************)

\* Most items handed to _take_with_budget.
MaxItems == 3
\* Most characters of one item.
MaxItemChars == 3
\* Largest max_total_chars.
MaxBudgetChars == 6

\* The character U+2026 that _truncate appends.
Ellipsis == "~"

\* The text of n characters: "1", "12", "123", ...
Text(n) == [i \in 1 .. n |-> ToString(i)]

ItemTexts == {Text(n) : n \in 0 .. MaxItemChars}

ItemLists == UNION {SeqsOfLen(ItemTexts, n) : n \in 0 .. MaxItems}

\* max_total_chars as configured: any int, a negative one included
CharBudgets == -1 .. MaxBudgetChars

\* A faulty variant of _truncate: the ellipsis is appended to max_chars
\* characters of the text.
_truncate_plus_one(text, max_chars) ==
    IF max_chars <= 0 THEN <<>>
    ELSE IF Len(text) <= max_chars THEN text
    ELSE SubSeq(text, 1, max_chars) \o <<Ellipsis>>

\* prompt_builder.py: _truncate
_truncate(text, max_chars) ==
    IF max_chars <= 0 THEN <<>>
    ELSE IF Len(text) <= max_chars THEN text
    ELSE SubSeq(text, 1, max_chars - 1) \o <<Ellipsis>>

\* prompt_builder.py lines 35-43: the loop over the items left, with the
\* budget that remains
RECURSIVE take_loop(_, _)
take_loop(items, remaining) ==
    IF items = <<>> \/ remaining <= 0 THEN <<>>
    ELSE IF Len(Head(items)) <= remaining
    THEN <<Head(items)>> \o take_loop(Tail(items), remaining - Len(Head(items)))
    ELSE <<_truncate(Head(items), remaining)>>

\* prompt_builder.py: _take_with_budget
_take_with_budget(items, max_total_chars) == take_loop(items, max_total_chars)

NoTakeCall == [valid |-> FALSE, items |-> <<>>, max_total_chars |-> 0]

NoPromptCall == [valid |-> FALSE]

\* The prompt builder while another part is under study.
IdlePrompt ==
    /\ takeCall = NoTakeCall
    /\ promptCall = NoPromptCall

InitTake ==
    /\ takeCall \in [valid : {FALSE}, items : ItemLists, max_total_chars : CharBudgets]
    /\ promptCall = NoPromptCall

\* One call of _take_with_budget.
TakeWithBudget ==
    /\ ~takeCall.valid
    /\ takeCall' = [valid |-> TRUE, items |-> takeCall.items,
                    max_total_chars |-> takeCall.max_total_chars,
                    out |-> _take_with_budget(takeCall.items, takeCall.max_total_chars)]
    /\ UNCHANGED promptCall
    /\ UNCHANGED notPrompt

NextTake == TakeWithBudget

\* Most documents, and most recent-history lines less one, handed to
\* build_system_prompt; the largest max_docs, max_memories and
\* max_recent_history_lines.
MaxPromptDocs == 2

\* The text in front of the content of an item, "[Doc i] (ref)\n" or
\* "[Memory i] (ref)\n": the label and the rest.
ItemHead(kind, i) == <<kind \o ToString(i), "\n">>

\* The budgets: every limit from 0 up, the character budgets none, tight and
\* ample, max_item_chars tight and ample.
PromptBudgets ==
    [max_recent_history_lines : 0 .. MaxPromptDocs,
     max_docs : 0 .. MaxPromptDocs,
     max_memories : 0 .. MaxPromptDocs,
     max_doc_chars_total : {0, MaxItemChars, MaxBudgetChars},
     max_memory_chars_total : {0, MaxBudgetChars},
     max_item_chars : {1, MaxItemChars}]

\* page_content of the documents handed in: short and long ones.
PromptDocLists ==
    UNION {SeqsOfLen({Text(1), Text(MaxItemChars)}, n) : n \in 0 .. MaxPromptDocs}

PromptMemoryLists == {[i \in 1 .. n |-> Text(1)] : n \in 0 .. MaxPromptDocs}

\* recent_history_lines: line 1 is the oldest.
HistoryLines == {[i \in 1 .. n |-> "line" \o ToString(i)] : n \in 0 .. MaxPromptDocs + 1}

\* list[-n:] of Python for n >= 0: the last n elements, and the whole list for
\* n = 0, since -0 is 0
last_slice(list, n) ==
    IF n = 0 \/ n >= Len(list) THEN list
    ELSE SubSeq(list, Len(list) - n + 1, Len(list))

\* prompt_builder.py lines 106-124: the items of the first max_items documents
prompt_items(kind, docs, max_items, max_item_chars) ==
    LET kept == Take(docs, max_items)
    IN  [i \in 1 .. Len(kept) |-> ItemHead(kind, i) \o _truncate(kept[i], max_item_chars)]

\* prompt_builder.py: build_citations, by the kind and the label of each entry
build_citations(docs, memories) ==
    [i \in 1 .. Len(docs) |-> [kind |-> "doc", label |-> "Doc" \o ToString(i)]]
        \o [i \in 1 .. Len(memories) |-> [kind |-> "memory", label |-> "Memory" \o ToString(i)]]

\* prompt_builder.py: build_system_prompt; the prompt is kept as the lines of its
\* recent_history block and the items of its two retrieval blocks
build_system_prompt(recent_history_lines, docs, memories, b) ==
    [recent_lines |-> last_slice(recent_history_lines, b.max_recent_history_lines),
     doc_items |-> _take_with_budget(
                       prompt_items("Doc", docs, b.max_docs, b.max_item_chars),
                       b.max_doc_chars_total),
     mem_items |-> _take_with_budget(
                       prompt_items("Memory", memories, b.max_memories, b.max_item_chars),
                       b.max_memory_chars_total),
     citations |-> build_citations(Take(docs, b.max_docs), Take(memories, b.max_memories))]

InitPrompt ==
    /\ takeCall = NoTakeCall
    /\ promptCall \in [valid : {FALSE}, recent_history_lines : HistoryLines,
                       docs : PromptDocLists, memories : PromptMemoryLists,
                       budget : PromptBudgets]

\* One call of build_system_prompt.
BuildSystemPrompt ==
    /\ ~promptCall.valid
    /\ "budget" \in DOMAIN promptCall
    /\ \E res \in {build_system_prompt(promptCall.recent_history_lines, promptCall.docs,
                                       promptCall.memories, promptCall.budget)} :
          promptCall' = [valid |-> TRUE,
                         recent_history_lines |-> promptCall.recent_history_lines,
                         docs |-> promptCall.docs, memories |-> promptCall.memories,
                         budget |-> promptCall.budget,
                         recent_lines |-> res.recent_lines, doc_items |-> res.doc_items,
                         mem_items |-> res.mem_items, citations |-> res.citations]
    /\ UNCHANGED takeCall
    /\ UNCHANGED notPrompt

NextPrompt == BuildSystemPrompt

(***************************************************************************)
(* The specifications                                                      *)
(***************************************************************************)

\* The stages after the lexical retriever before any call.
IdleStages ==
    IdleRRF /\ IdleRerank /\ InitRestore /\ InitGrade /\ IdleTurn /\ IdlePersist /\ IdlePrompt

\* Every part before any call.
Init0 == IdleGraph /\ IdleBM25 /\ InitConc /\ IdleStages

Init == InitGraph /\ IdleBM25 /\ InitConc /\ IdleStages

SpecGraph == Init /\ [][NextGraph]_vars

InitSeq == IdleGraph /\ InitBM25 /\ InitConc /\ IdleStages

SpecBM25 == InitSeq /\ [][NextBM25]_vars

InitThreads == IdleGraph /\ IdleBM25 /\ InitConc /\ IdleStages

SpecConc == InitThreads /\ [][NextConc]_vars

InitFusion ==
    /\ IdleGraph /\ IdleBM25 /\ InitConc
    /\ InitRRF /\ IdleRerank /\ InitRestore /\ InitGrade /\ IdleTurn /\ IdlePersist /\ IdlePrompt

SpecRRF == InitFusion /\ [][NextRRF]_vars

InitReranker ==
    /\ IdleGraph /\ IdleBM25 /\ InitConc
    /\ IdleRRF /\ InitRerank /\ InitRestore /\ InitGrade /\ IdleTurn /\ IdlePersist /\ IdlePrompt

SpecRerank == InitReranker /\ [][NextRerank]_vars

InitWindowCalls ==
    /\ IdleGraph /\ IdleBM25 /\ InitConc
    /\ IdleRRF /\ InitWindows /\ InitRestore /\ InitGrade /\ IdleTurn /\ IdlePersist /\ IdlePrompt

SpecWindows == InitWindowCalls /\ [][NextWindows]_vars

SpecRestore == Init0 /\ [][NextRestore]_vars

SpecGrade == Init0 /\ [][NextGrade]_vars

\* A turn starts with the reranker not yet loaded; which scoring method the
\* model offers makes no difference to the turn.
InitDocs ==
    /\ IdleGraph /\ IdleBM25 /\ InitConc
    /\ IdleRRF /\ InitRerank /\ reranker.kind = "predict"
    /\ InitRestore /\ InitGrade /\ InitTurn /\ IdlePersist /\ IdlePrompt

SpecTurn == InitDocs /\ [][NextTurn]_vars

InitBuilders ==
    /\ IdleGraph /\ IdleBM25 /\ InitConc
    /\ IdleRRF /\ IdleRerank /\ InitRestore /\ InitGrade /\ IdleTurn /\ InitPersist /\ IdlePrompt

SpecPersist == InitBuilders /\ [][NextPersist]_vars

InitBudget ==
    /\ IdleGraph /\ IdleBM25 /\ InitConc
    /\ IdleRRF /\ IdleRerank /\ InitRestore /\ InitGrade /\ IdleTurn /\ IdlePersist
    /\ InitTake

SpecTake == InitBudget /\ [][NextTake]_vars

InitPromptCalls ==
    /\ IdleGraph /\ IdleBM25 /\ InitConc
    /\ IdleRRF /\ IdleRerank /\ InitRestore /\ InitGrade /\ IdleTurn /\ IdlePersist
    /\ InitPrompt

SpecPrompt == InitPromptCalls /\ [][NextPrompt]_vars

(***************************************************************************)
(* Claims about the self-correction graph (checked under SpecGraph)        *)
(***************************************************************************)

\* C1: in every execution, whatever the grader does (any verdicts, malformed
\* output, an exception inside the Grade step), at most max_attempts rewrite or
\* search transitions are taken out of Grade.  The except branch of grader_node
\* records verdict=rewrite without counting the attempt, so this fails.
C1_AtMostMaxAttemptsNonAccept == nonAccept <= max_attempts

\* C2 as stated: with a grader that always returns rewrite, the turn ends in
\* Accept after exactly max_attempts re-entries Grade -> rewrite -> ... -> Grade.
C2_ExactlyMaxAttemptsCycles ==
    (node = "END" /\ gradeCount > 0 /\ allRewrite) => nonAccept = max_attempts

\* C2 as amended: with a grader that always returns rewrite, the number of
\* rewrite transitions never exceeds max(max_attempts - 1, 0), and the turn ends
\* in Accept after exactly max(max_attempts, 1) Grade steps, that is after exactly
\* max(max_attempts - 1, 0) re-entries, with the counter at max(max_attempts, 1).
C2_RewriteCyclesAmended ==
    (gradeCount > 0 /\ allRewrite) =>
        /\ nonAccept <= Max(max_attempts - 1, 0)
        /\ node = "END" =>
              /\ nonAccept = Max(max_attempts - 1, 0)
              /\ gradeCount = Max(max_attempts, 1)
              /\ attempts = Max(max_attempts, 1)

C2_Witness ==
    /\ node = "END" /\ allRewrite
    /\ max_attempts = MaxAttempts /\ nonAccept = MaxAttempts - 1

\* C3: whenever the transition out of Grade is decided with
\* self_correction_attempts >= max_attempts it is Accept, whatever the recorded
\* verdict; rewrite or search is taken only with attempts < max_attempts (so the
\* web_search node is only ever entered below the cap).
C3_CapForcesAccept ==
    /\ lastKey.key # "none" =>
          /\ lastKey.attempts >= max_attempts => lastKey.key = "accept"
          /\ lastKey.key \in {"rewrite", "search"} => lastKey.attempts < max_attempts
          /\ lastKey.key = "accept" => node = "END"
    /\ node = "web_search" => (lastKey.key = "search" /\ attempts < max_attempts)

C3_Witness ==
    /\ node = "END" /\ lastKey.key = "accept"
    /\ lastKey.verdict \in {"rewrite", "search"}
    /\ lastKey.attempts >= max_attempts /\ max_attempts > 0

\* C4 as stated: self_correction_attempts <= max_attempts in every reachable
\* state, for every max_attempts >= 0 (0 included).
C4_AttemptsAtMostMax == attempts <= max_attempts

\* C4 as amended: self_correction_attempts <= max(max_attempts, 1) in every
\* reachable state: the counter never exceeds max_attempts when max_attempts >= 1,
\* and with max_attempts = 0 the one Grade step still counts a non-accept verdict.
C4_AttemptsAtMostMaxOrOne == attempts <= Max(max_attempts, 1)

C4_Witness == max_attempts = 0 /\ attempts = 1 /\ node = "END"

(***************************************************************************)
(* Claims about the lexical index and retriever in sequential use          *)
(* (checked under SpecBM25)                                                *)
(***************************************************************************)

\* C5: after any sequence of add_documents calls the index state used for
\* scoring (term dictionary, posting lists, df, idf, doc_lens, doc_count,
\* avg_doc_len) equals that of a fresh index built from the documents of the last
\* call only.
C5_RebuildReplacesState == builds > 0 => index = FreshIndex(documents)

\* C6: after any sequence of build calls every term's idf is >= 0, equivalently
\* every term's document frequency is at most doc_count.
C6_IdfNonNegative ==
    \A t \in DOMAIN index.idf : index.idf[t] >= 0 /\ index.df[t] <= index.doc_count

\* C7: a search(q, k) returns exactly what a fresh retriever loaded only with the
\* documents of the last add_documents call returns for (q, k), and a search that
\* is answered from the cache returns what the cache held.
C7_SearchMatchesFreshRetriever ==
    lastSearch.valid =>
        lastSearch.result =
            search_result(FreshIndex(documents), documents, indexed, <<>>,
                          lastSearch.query, lastSearch.top_k)

\* retriever.py lines 56-61 applied to every document of the corpus instead of
\* the candidates only: all documents ranked by their BM25 score.
full_ranking(ix, docs, query) ==
    SortByScore({[doc_id |-> d - 1, score |-> score(ix, d - 1, query)] :
                    d \in 1 .. Len(docs)})

\* C11: after add_documents, a search(query, top_k) with top_k >= 0 returns at
\* most top_k pairs in non-increasing score order, only of documents that share a
\* term with the query, and the pairs are the first top_k entries of the ranking
\* of all documents by BM25 score (the zero-score documents, which share no term
\* with the query, left out): restricting the scoring to the candidates never
\* changes the ranking.
C11_SearchEqualsFullRanking ==
    (lastSearch.valid /\ indexed) =>
        /\ Len(lastSearch.result) <= lastSearch.top_k
        /\ \A i \in 1 .. Len(lastSearch.result) - 1 :
               lastSearch.result[i].score >= lastSearch.result[i + 1].score
        /\ \A i \in 1 .. Len(lastSearch.result) :
               \E j \in 1 .. Len(tokenize(lastSearch.query)) :
                   Count(tokenize(lastSearch.result[i].doc),
                         tokenize(lastSearch.query)[j]) > 0
        /\ lastSearch.result =
               results_of(SelectSeq(Take(full_ranking(index, documents, lastSearch.query),
                                         lastSearch.top_k),
                                    LAMBDA e : e.score # 0),
                          documents)

\* C10 as stated: for any configured cache_size the result cache holds at most
\* cache_size entries.
C10_CacheAtMostCacheSize == Cardinality(DOMAIN cache) <= cache_size

\* C10 as amended: the result cache holds at most max(cache_size, 1) entries (at
\* most cache_size for every cache_size >= 1, one entry for cache_size <= 0), and
\* when a computed result is inserted while the cache already holds cache_size or
\* more entries, every existing entry is removed first, leaving exactly the new one.
C10_CacheBoundedClearOnFull ==
    /\ Cardinality(DOMAIN cache) <= Max(cache_size, 1)
    /\ (/\ lastSearch.valid
        /\ ~lastSearch.hit
        /\ <<lastSearch.query, lastSearch.top_k>> \in DOMAIN cache
        /\ lastSearch.cached_before >= cache_size)
       => /\ DOMAIN cache = {<<lastSearch.query, lastSearch.top_k>>}
          /\ cache[<<lastSearch.query, lastSearch.top_k>>] = lastSearch.result

C10_Witness ==
    /\ lastSearch.valid /\ ~lastSearch.hit
    /\ cache_size = MaxCacheSize
    /\ lastSearch.cached_before = MaxCacheSize
    /\ DOMAIN cache = {<<lastSearch.query, lastSearch.top_k>>}
    /\ lastSearch.result # <<>>

\* C29: after any sequence of search calls, every (doc, score) pair that a
\* search returned or that the cache holds still has
\* doc.metadata["bm25_score"] = score: a search for another query does not
\* change the Documents handed out before.
C29_HandedResultsKeepTheirScore ==
    /\ ~handed.rescored
    /\ \A pr \in UNION {pairs_of(cache[key]) : key \in DOMAIN cache} :
           /\ bm25_score[pr[1] + 1].present
           /\ bm25_score[pr[1] + 1].val = pr[2]

(***************************************************************************)
(* Claims about the retriever used by two threads (checked under SpecConc) *)
(***************************************************************************)

\* C8: add_documents and search exclude each other: a search reads the documents
\* list, the index fields and the scorer's inputs all from one corpus version
\* (all written by the same add_documents call), never from a mix.
C8_SearchReadsOneVersion ==
    \A t \in Threads : Cardinality(threads[t].seen) <= 1

\* C9: the cache lookup and the insert of a search are one critical section: of
\* two threads that search the same (query, top_k) concurrently, at most one gets
\* past the lookup to compute and insert the result.
C9_AtMostOneComputes ==
    \A t1 \in Threads, t2 \in Threads :
        ~(/\ t1 # t2
          /\ threads[t1].pc = "s_insert"
          /\ threads[t2].pc = "s_insert"
          /\ threads[t1].query = threads[t2].query
          /\ threads[t1].top_k = threads[t2].top_k)

\* C28: once an add_documents call has returned, the cache holds no result that
\* was computed from what an earlier add_documents call wrote (so that no later
\* search returns one): a search in flight during the rebuild leaves no such
\* entry behind.
C28_NoCachedResultOfPreviousCorpus ==
    \A key \in DOMAIN version.cached :
        \A v \in version.cached[key] : v >= version.returned

(***************************************************************************)
(* Claims about reciprocal rank fusion (checked under SpecRRF)             *)
(***************************************************************************)

\* The fused score the last call attached to its i-th output candidate.
FusedScore(i) == heap[fuseCall.out[i]]["retrieval_rrf_score"]

\* The ranks at which key stands in the l-th list of the last call.
RanksOf(key, l) ==
    {r \in 1 .. Len(fuseCall.ranked_lists[l].docs) :
        KeyOf(heap, fuseCall.ranked_lists[l].docs[r]) = key}

\* weight / (rrf_k + rank) in units of 0.5 / RrfUnit(rrf_k), for the l-th list
\* of the last call.
ShareOf(l, r) ==
    (fuseCall.ranked_lists[l].weight * RrfUnit(fuseCall.rrf_k)) \div (fuseCall.rrf_k + r)

\* The sums that take one rank of the key from every list that contains it.
RECURSIVE OneRankPerList(_, _)
OneRankPerList(key, l) ==
    IF l = 0 THEN {0}
    ELSE IF RanksOf(key, l) = {} THEN OneRankPerList(key, l - 1)
    ELSE {ShareOf(l, r) + s : r \in RanksOf(key, l), s \in OneRankPerList(key, l - 1)}

\* Sparse [A, B] and dense [B, A] with equal weights and room for both: A and B
\* are both in the output, with equal fused scores.
SymmetricListsTie ==
    LET ls == fuseCall.ranked_lists
    IN  (/\ Len(ls[1].docs) = 2 /\ Len(ls[2].docs) = 2
         /\ ls[1].weight = ls[2].weight
         /\ fuseCall.top_n >= 2
         /\ KeyOf(heap, ls[1].docs[1]) = KeyOf(heap, ls[2].docs[2])
         /\ KeyOf(heap, ls[1].docs[2]) = KeyOf(heap, ls[2].docs[1])
         /\ KeyOf(heap, ls[1].docs[1]) # KeyOf(heap, ls[1].docs[2]))
        => /\ Len(fuseCall.out) = 2
           /\ {fuseCall.keys[1], fuseCall.keys[2]}
                  = {KeyOf(heap, ls[1].docs[1]), KeyOf(heap, ls[1].docs[2])}
           /\ FusedScore(1) = FusedScore(2)

\* C12 as stated: the fused score of a key is the sum, over every ranked list
\* that contains it, of weight_list / (rrf_k + rank), rank being the 1-based rank
\* of the key in that list (whichever of its ranks, should the list hold the key
\* more than once); sparse [A, B] and dense [B, A] with equal weights give A and
\* B equal fused scores, both in the output.
C12_FusedScorePerList ==
    fuseCall.valid =>
        /\ \A i \in 1 .. Len(fuseCall.out) :
               FusedScore(i) \in OneRankPerList(fuseCall.keys[i], Len(fuseCall.ranked_lists))
        /\ SymmetricListsTie

\* C12 as amended: the fused score of a key is the sum, over every position of
\* every ranked list at which the key stands, of weight_list / (rrf_k + rank): a
\* key at rank 1 of two lists of equal weight w, once in each, scores
\* 2w / (rrf_k + 1), a key at rank 1 of one list only w / (rrf_k + 1), and sparse
\* [A, B] and dense [B, A] with equal weights and top_n >= 2 give A and B equal
\* fused scores, both in the output.
C12_FusedScorePerOccurrence ==
    fuseCall.valid =>
        /\ \A i \in 1 .. Len(fuseCall.out) :
               LET key == fuseCall.keys[i]
                   occ == {p \in (1 .. Len(fuseCall.ranked_lists)) \X (1 .. MaxListLen) :
                              p[2] \in RanksOf(key, p[1])}
               IN  /\ FusedScore(i) = SumOver([p \in occ |-> ShareOf(p[1], p[2])], occ)
                   /\ (/\ RanksOf(key, 1) = {1} /\ RanksOf(key, 2) = {1}
                       /\ fuseCall.ranked_lists[1].weight = fuseCall.ranked_lists[2].weight)
                      => FusedScore(i) * (fuseCall.rrf_k + 1)
                            = 2 * fuseCall.ranked_lists[1].weight * RrfUnit(fuseCall.rrf_k)
                   /\ (RanksOf(key, 1) = {1} /\ RanksOf(key, 2) = {})
                      => FusedScore(i) * (fuseCall.rrf_k + 1)
                            = fuseCall.ranked_lists[1].weight * RrfUnit(fuseCall.rrf_k)
        /\ SymmetricListsTie

\* A call whose sparse list holds one key at ranks 1 and 2, both of which count.
C12_Witness ==
    /\ fuseCall.valid
    /\ fuseCall.ranked_lists[1].docs = <<"A", "A2">>
    /\ fuseCall.ranked_lists[2].docs = <<"B">>
    /\ Len(fuseCall.out) = 2
    /\ RanksOf(fuseCall.keys[1], 1) = {1, 2}

\* The Document objects as they are before any call.
PristineHeap == [o \in Objs |-> InitMetadata(o)]

C14_RerankDegradesToNeutral ==
    (rerankCall.valid /\ (rerankCall.load_raised \/ rerankCall.score_raised)) =>
        /\ ~rerankCall.raised
        /\ rerankCall.result = neutral_scores(rerankCall.documents, rerankCall.top_k)

(***************************************************************************)
(* Claims about parent restoration (checked under SpecRestore)             *)
(***************************************************************************)

\* C15: for any list of scored children and any k >= 1, restore_parents asks the
\* parent store for at most k parent ids, in a single fetch of the first k
\* distinct parent ids in first-seen order, and returns at most k documents.
C15_FetchesAtMostK ==
    (restoreCall.valid /\ restoreCall.k >= 1) =>
        /\ Len(restoreCall.fetched) <= 1
        /\ \A f \in 1 .. Len(restoreCall.fetched) :
               LET ids == restoreCall.fetched[f]
                   seen == [i \in 1 .. Len(restoreCall.docs) |->
                               IF has_parent(restoreCall.docs[i])
                               THEN restoreCall.docs[i].pid.val ELSE 0]
                   \* the positions at which a parent id is met for the first time
                   firsts == {i \in 1 .. Len(seen) :
                                 seen[i] # 0 /\ \A j \in 1 .. i - 1 : seen[j] # seen[i]}
               IN  /\ Len(ids) <= restoreCall.k
                   /\ Len(ids) = Min(restoreCall.k, Cardinality(firsts))
                   /\ \A n \in 1 .. Len(ids) :
                          \E i \in firsts :
                              /\ seen[i] = ids[n]
                              /\ Cardinality({j \in firsts : j < i}) = n - 1
        /\ Len(restoreCall.result) <= restoreCall.k

\* 4 children over 3 distinct parents with k = 2: two ids are fetched.
C15_Witness ==
    /\ restoreCall.valid
    /\ Len(restoreCall.docs) = 4
    /\ restoreCall.k = MaxRestoreK
    /\ restoreCall.fetched = << <<1, 2>> >>
    /\ Len(restoreCall.result) = 2

\* C16: whenever parent storage is unavailable (the schema check reports it
\* unavailable, or the parent fetch raises), restore_parents(docs, k) returns
\* docs[:k], the first k scored children unchanged, without raising.
C16_UnavailableReturnsChildren ==
    (restoreCall.valid /\ (~restoreCall.available \/ restoreCall.fetch_raised)) =>
        restoreCall.result = Take(restoreCall.docs, restoreCall.k)

(***************************************************************************)
(* Claims about the Grade step (checked under SpecGrade)                   *)
(***************************************************************************)

\* The answer is none the schema accepts: the call fails (or is not made), the
\* text holds no JSON, the JSON is no object, or the object violates the schema.
Malformed(raw) ==
    \/ raw.call \in {"raises", "not_called"}
    \/ raw.json # "object"
    \/ "verdict" \notin DOMAIN raw.data
    \/ "reasoning" \notin DOMAIN raw.data
    \/ raw.data.verdict \notin {"accept", "rewrite", "search"}

\* C17: for any grader model output that is unparseable text, JSON violating the
\* schema, a JSON value that is not an object, or a failing model call, the Grade
\* step completes without raising and records a grade with verdict = rewrite and
\* the generic rewrite instruction.
C17_MalformedOutputGradesRewrite ==
    (/\ gradeCall.valid
     /\ gradeCall.structured.kind # "instance"
     /\ ~gradeCall.node_raises
     /\ gradeCall.raw1.call # "not_called"
     /\ Malformed(gradeCall.raw1)
     /\ Malformed(gradeCall.raw2))
    => /\ ~gradeCall.raised
       /\ gradeCall.grade.verdict = "rewrite"
       /\ gradeCall.grade.rewrite_instructions = GenericRewrite

\* A native_first step whose first answer is prose without JSON and whose second
\* answer is an object with a verdict outside the schema.
C17_Witness ==
    /\ gradeCall.valid
    /\ gradeCall.mode = "native_first"
    /\ ~gradeCall.node_raises
    /\ gradeCall.structured.kind = "raises"
    /\ gradeCall.raw1.call = "ok" /\ gradeCall.raw1.json = "none"
    /\ gradeCall.raw2.call = "ok" /\ gradeCall.raw2.json = "object"
    /\ gradeCall.raw2.data = [verdict |-> "maybe", reasoning |-> "r"]
    /\ gradeCall.grade.verdict = "rewrite"

(***************************************************************************)
(* Claims about the document steps of a turn (checked under SpecTurn)      *)
(***************************************************************************)

\* C18: whichever collaborator of the document-retrieval step or of the
\* rerank/parent-restoration step fails (vector store, reranker model, parent
\* store raising or unavailable), the turn goes on towards Generate: it is never
\* ended by the failure before answer generation.
C18_FailureNeverAborts == turn.at # "aborted"

\* C19: a retrieval issued with user_id = u passes the filter {user_id: u},
\* the dense search and the sparse search both run with it, and every candidate
\* returned is owned by u; with no user_id the filter passed is None.  A
\* retrieval that ends because a search is down is left out, and so is the
\* sparse search of a store that has none and no BM25 index either.
C19_FilterAppliedToBothSearches ==
    (/\ retrieveCall.valid
     /\ retrieveCall.searched
     /\ ~(retrieveCall.raised /\ retrieveCall.error = "Exception"))
    => /\ retrieveCall.user_id = NoUser => retrieveCall.filter = NoFilter
       /\ retrieveCall.user_id # NoUser =>
              /\ retrieveCall.filter = retrieveCall.user_id
              /\ retrieveCall.dense_filter = retrieveCall.user_id
              /\ \/ retrieveCall.sparse_filter = retrieveCall.user_id
                 \/ /\ vectorstore.sparse = "absent"
                    /\ retrieveCall.sparse_filter = "NotSearched"
              /\ \A i \in 1 .. Len(retrieveCall.owners) :
                     retrieveCall.owners[i] = retrieveCall.user_id

(***************************************************************************)
(* Claims about saving and loading the index (checked under SpecPersist)   *)
(***************************************************************************)

\* The two builders hold equivalent indexes: the same documents, doc_count,
\* avg_doc_len, term dictionary, df, idf, posting lists and doc_lens, and the
\* same BM25 score for every document id and query.
EquivalentIndex(a, b) ==
    /\ a.documents = b.documents
    /\ a.index.doc_count = b.index.doc_count
    /\ a.index.avg_doc_len = b.index.avg_doc_len
    /\ a.index.term_dict = b.index.term_dict
    /\ a.index.df = b.index.df
    /\ a.index.idf = b.index.idf
    /\ a.index.posting_lists = b.index.posting_lists
    /\ a.index.doc_lens = b.index.doc_lens
    /\ \A doc_id \in 0 .. Len(a.documents), q \in Queries :
          score(a.index, doc_id, q) = score(b.index, doc_id, q)

\* C20: a load from the directory a builder saved to gives the loading
\* builder an index equivalent to the saved one, every (doc_id, query) pair
\* scoring the same on both; a load from a directory without an index file
\* leaves the loading builder unchanged.
C20_LoadRestoresSavedIndex ==
    loadCall.valid =>
        IF loadCall.found THEN EquivalentIndex(loadCall.origin, loadCall.after)
        ELSE loadCall.after = loadCall.before

(***************************************************************************)
(* Claims about the prompt builder (checked under SpecTake and SpecPrompt) *)
(***************************************************************************)

\* The characters of a list of items.
TotalChars(items) == SumSeq([i \in 1 .. Len(items) |-> Len(items[i])])

\* out is the items fitted into a budget of room characters: a prefix of the
\* items, whole except possibly for the last one; an item is cut only when it
\* does not fit what the items before it left, and then to exactly that; an
\* item is dropped only after a cut one or when nothing is left.
FitsBudget(items, out, room) ==
    LET n == Len(out)
        before(i) == TotalChars(SubSeq(items, 1, i - 1))
    IN  /\ n <= Len(items)
        /\ \A i \in 1 .. n - 1 : out[i] = items[i]
        /\ n > 0 =>
               \/ out[n] = items[n]
               \/ /\ Len(items[n]) > room - before(n)
                  /\ Len(out[n]) = room - before(n)
                  /\ SubSeq(out[n], 1, Len(out[n]) - 1)
                         = SubSeq(items[n], 1, Len(out[n]) - 1)
        /\ n < Len(items) =>
               \/ n > 0 /\ out[n] # items[n]
               \/ TotalChars(out) >= room

\* C21 as stated: for any items and any max_total_chars, the result is the
\* items fitted into max_total_chars and its characters never exceed
\* max_total_chars.
C21_TakeWithinAnyBudget ==
    takeCall.valid =>
        /\ FitsBudget(takeCall.items, takeCall.out, takeCall.max_total_chars)
        /\ TotalChars(takeCall.out) <= takeCall.max_total_chars

\* C21 amended: the result is the items fitted into max(max_total_chars, 0)
\* characters and its characters never exceed max(max_total_chars, 0); with a
\* negative max_total_chars the result is empty, 0 characters.
C21_TakeWithinBudget ==
    takeCall.valid =>
        /\ FitsBudget(takeCall.items, takeCall.out, Max(takeCall.max_total_chars, 0))
        /\ TotalChars(takeCall.out) <= Max(takeCall.max_total_chars, 0)

\* A call in which two items fit, the third is cut and the budget is used up.
C21_Witness ==
    /\ takeCall.valid
    /\ Len(takeCall.items) = 3
    /\ Len(takeCall.out) = 3
    /\ takeCall.out[2] = takeCall.items[2]
    /\ takeCall.out[3] # takeCall.items[3]
    /\ TotalChars(takeCall.out) = takeCall.max_total_chars

(***************************************************************************)
(* Further claims about the self-correction graph (checked under SpecGraph)*)
(***************************************************************************)

\* C22: a Grade step that records a non-accept grade (the grade of the except
\* branch included) adds exactly 1 to self_correction_attempts, a Grade step
\* that records accept leaves it unchanged, and no other step changes it.
C22_CounterFollowsRecordedGrade ==
    [][IF node = "grader"
       THEN attempts' = attempts + (IF verdict' = "accept" THEN 0 ELSE 1)
       ELSE attempts' = attempts]_vars

\* C23: when Assemble runs after a Grade step whose transition was rewrite,
\* context.self_correction holds the rewrite instructions of that grade; when it
\* runs after a Grade step whose transition was search, the web_search step has
\* run since and context.web_search holds what that step found (or its failure
\* text).
C23_AssembleSeesCorrection ==
    node = "assemble" =>
        /\ lastKey.key = "rewrite" => context.self_correction = "recorded"
        /\ lastKey.key = "search" =>
               /\ trail.web_search
               /\ context.web_search.of = "latest"

\* The routing of C24 in the turns whose steps all return: the three retrieval
\* steps run at most once and only when the route asks for them, Rerank only
\* after document retrieval.
RoutedAsAsked ==
    /\ trail.retrieve_docs <= 1 /\ trail.rerank_docs <= 1 /\ trail.retrieve_memories <= 1
    /\ trail.retrieve_docs = 1 => route.needs_docs /\ config.enable_docs_rag
    /\ trail.retrieve_memories = 1 => route.needs_history /\ config.enable_chat_memory
    /\ trail.rerank_docs = 1 => trail.retrieve_docs = 1
    /\ trail.assemble =>
           /\ trail.retrieve_docs = 1 <=> (route.needs_docs /\ config.enable_docs_rag)
           /\ trail.retrieve_memories = 1
                  <=> (route.needs_history /\ config.enable_chat_memory)
           /\ trail.rerank_docs = trail.retrieve_docs

\* C24: document retrieval runs iff the route has needs_docs and docs RAG is on,
\* memory retrieval iff it has needs_history and chat memory is on, Rerank iff
\* document retrieval ran, directly after it; each of the three runs at most
\* once in a turn; and no turn is over before Assemble and then Generate ran.
C24_RetrievalFollowsRoute ==
    /\ RoutedAsAsked
    /\ (trail.retrieve_docs = 1 /\ node # "rerank_docs") => trail.rerank_docs = 1
    /\ node \in {"END", "aborted"} => trail.assemble /\ trail.generate

(***************************************************************************)
(* Further claims about rank fusion (checked under SpecRRF)                *)
(***************************************************************************)

\* The candidates of the last call in the order of the double loop.
VisitedDocs == ConcatAll([l \in 1 .. Len(fuseCall.ranked_lists) |->
                             fuseCall.ranked_lists[l].docs])

\* C25: after any sequence of fuse calls over shared Document objects, every
\* output candidate is the object that first introduced its key (in list order)
\* and its metadata holds retrieval_<name>_rank exactly for the lists in which
\* the key stood in this call, with a rank of the key in that list; the output
\* is in descending order of fused score, ties in first-seen order, and holds at
\* most top_n candidates, all of them when there are fewer keys.
C25_RankMetadataOfThisCall ==
    fuseCall.valid =>
        LET out == fuseCall.out
            keys == fuseCall.keys
            seen(key) == CHOOSE i \in 1 .. Len(VisitedDocs) :
                            /\ KeyOf(heap, VisitedDocs[i]) = key
                            /\ \A j \in 1 .. i - 1 : KeyOf(heap, VisitedDocs[j]) # key
            allKeys == {KeyOf(heap, VisitedDocs[i]) : i \in 1 .. Len(VisitedDocs)}
        IN  /\ Len(out) = Min(fuseCall.top_n, Cardinality(allKeys))
            /\ \A i \in 1 .. Len(out) :
                   /\ out[i] = VisitedDocs[seen(keys[i])]
                   /\ \A l \in 1 .. Len(fuseCall.ranked_lists) :
                          LET f == rank_field(fuseCall.ranked_lists[l].name)
                          IN  /\ f \in DOMAIN heap[out[i]] <=> RanksOf(keys[i], l) # {}
                              /\ f \in DOMAIN heap[out[i]]
                                     => heap[out[i]][f] \in RanksOf(keys[i], l)
            /\ \A i, j \in 1 .. Len(out) :
                   i < j => \/ FusedScore(i) > FusedScore(j)
                            \/ /\ FusedScore(i) = FusedScore(j)
                               /\ seen(keys[i]) < seen(keys[j])

(***************************************************************************)
(* Claim about the sliding windows of the reranker (checked under          *)
(* SpecWindows)                                                            *)
(***************************************************************************)

\* The starts 0, S, 2S, ... up to and including the first window that reaches
\* the end of a document of n tokens.
RECURSIVE WindowStarts(_, _, _, _)
WindowStarts(start, n, W, S) ==
    IF start + W >= n THEN <<start>> ELSE <<start>> \o WindowStarts(start + S, n, W, S)

\* What C26 says of a finished call with window size W and stride S, 0 < S <= W.
WindowsAsStated(c, S) ==
    IF c.n = 0 THEN c.score = 0 /\ c.windows = <<>>
    ELSE /\ c.windows = WindowStarts(0, c.n, c.window_size, S)
         /\ \A t \in 0 .. c.n - 1 :
                \E i \in 1 .. Len(c.windows) :
                    c.windows[i] <= t /\ t < c.windows[i] + c.window_size
         /\ \E i \in 1 .. Len(c.windows) : c.score = c.scores[c.windows[i] + 1]
         /\ \A i \in 1 .. Len(c.windows) : c.score >= c.scores[c.windows[i] + 1]

\* C26: with window size W > 0 and stride 0 < S <= W, scoring a document of n
\* tokens evaluates the windows at 0, S, 2S, ... up to and including the first
\* one that reaches the end of the document, so that every token lies in an
\* evaluated window, and returns the maximum of their scores (0.0 for a
\* document without tokens).
C26_WindowsCoverAndMax ==
    (/\ windowCall.valid
     /\ 0 < windowCall.stride /\ windowCall.stride <= windowCall.window_size)
        => WindowsAsStated(windowCall, windowCall.stride)

\* The same for the calls whose tokenizer returns a dict: this holds.
WindowsOfDictTokenizer ==
    (/\ windowCall.valid /\ windowCall.tokens = "dict"
     /\ 0 < windowCall.stride /\ windowCall.stride <= windowCall.window_size)
        => WindowsAsStated(windowCall, windowCall.stride)

(***************************************************************************)
(* Further claim about parent restoration (checked under SpecRestore)      *)
(***************************************************************************)

\* The parent ids of the children of the last call, by position (0: none that
\* int() accepts).
ParentIdAt(i) ==
    IF restoreCall.docs[i].pid.kind \in {"int", "str"} THEN restoreCall.docs[i].pid.val ELSE 0

\* The first k distinct parent ids of the last call.
FirstParentIds ==
    LET n == Len(restoreCall.docs)
        firsts == {i \in 1 .. n :
                      ParentIdAt(i) # 0 /\ \A j \in 1 .. i - 1 : ParentIdAt(j) # ParentIdAt(i)}
    IN  {ParentIdAt(i) : i \in {j \in firsts :
                                   Cardinality({h \in firsts : h < j}) < restoreCall.k}}

\* The documents the result is cut from: the children without a parent id and
\* the parents resolved, by what identifies them.
RestoreCandidates ==
    {<<"child", i>> : i \in {j \in 1 .. Len(restoreCall.docs) : ParentIdAt(j) = 0}}
        \cup {<<"parent", p>> : p \in FirstParentIds \cap restoreCall.store}

CandidateScore(c) ==
    IF c[1] = "child" THEN restoreCall.docs[c[2]].score
    ELSE LET scores == {restoreCall.docs[i].score :
                           i \in {j \in 1 .. Len(restoreCall.docs) : ParentIdAt(j) = c[2]}}
         IN  CHOOSE m \in scores : \A x \in scores : m >= x

\* The candidate a document of the result is, <<"none", 0>> if it is none.
CandidateOf(d) ==
    IF d.type = "doc_parent" /\ <<"parent", d.pid.val>> \in RestoreCandidates
           /\ d.score = CandidateScore(<<"parent", d.pid.val>>)
    THEN <<"parent", d.pid.val>>
    ELSE IF \E c \in RestoreCandidates : c[1] = "child" /\ restoreCall.docs[c[2]] = d
    THEN CHOOSE c \in RestoreCandidates : c[1] = "child" /\ restoreCall.docs[c[2]] = d
    ELSE <<"none", 0>>

\* C27: with parent storage available (the schema check passes and the fetch
\* returns), the result consists of children without a resolvable parent id,
\* unchanged, and of one parent document for each of the first k distinct parent
\* ids that the store resolves, each with the maximum score of its children;
\* it is sorted by descending score and is the first k of them: nothing left
\* out scores higher than something returned, and an id the store does not
\* resolve gives no document.
C27_RestoreReturnsParentsAndFallback ==
    (restoreCall.valid /\ restoreCall.docs # <<>> /\ restoreCall.available
        /\ ~restoreCall.fetch_raised) =>
        LET res == restoreCall.result
            got == {CandidateOf(res[i]) : i \in 1 .. Len(res)}
        IN  /\ <<"none", 0>> \notin got
            /\ Cardinality(got) = Len(res)
            /\ Len(res) = Min(restoreCall.k, Cardinality(RestoreCandidates))
            /\ \A i \in 1 .. Len(res) - 1 : res[i].score >= res[i + 1].score
            /\ \A c \in RestoreCandidates \ got :
                   \A i \in 1 .. Len(res) : res[i].score >= CandidateScore(c)

\* Two parents restored, the first with the higher score of its two children;
\* the third parent id is beyond k.
C27_Witness ==
    /\ restoreCall.valid /\ restoreCall.available /\ ~restoreCall.fetch_raised
    /\ Len(restoreCall.docs) = 4
    /\ restoreCall.k = 2
    /\ restoreCall.store = {1, 2, 3}
    /\ Len(restoreCall.result) = 2
    /\ restoreCall.result[1].type = "doc_parent" /\ restoreCall.result[1].score = 3

(***************************************************************************)
(* Claim about the assembled prompt (checked under SpecPrompt)             *)
(***************************************************************************)

\* C30: for every budget with non-negative limits, the prompt holds at most
\* max_recent_history_lines recent-history lines, the most recent ones, at most
\* max_docs document items and at most max_memories memory items, and the
\* citations are exactly one entry for each document and each memory that the
\* prompt holds.
C30_PromptWithinLimits ==
    promptCall.valid =>
        LET b == promptCall.budget
            lines == promptCall.recent_history_lines
            kept == promptCall.recent_lines
            cited(kind) == SelectSeq(promptCall.citations, LAMBDA c : c.kind = kind)
        IN  /\ Len(kept) <= b.max_recent_history_lines
            /\ Len(kept) = Min(b.max_recent_history_lines, Len(lines))
            /\ kept = SubSeq(lines, Len(lines) - Len(kept) + 1, Len(lines))
            /\ Len(promptCall.doc_items) <= b.max_docs
            /\ Len(promptCall.mem_items) <= b.max_memories
            /\ Len(cited("doc")) = Len(promptCall.doc_items)
            /\ Len(cited("memory")) = Len(promptCall.mem_items)
            /\ Len(promptCall.citations) = Len(promptCall.doc_items) + Len(promptCall.mem_items)

\* The same without the case max_recent_history_lines = 0 and with a citation
\* for each of the first max_docs documents and max_memories memories handed
\* in, in the prompt or not: this holds.
PromptWithinPositiveLimits ==
    promptCall.valid =>
        LET b == promptCall.budget
            lines == promptCall.recent_history_lines
            kept == promptCall.recent_lines
        IN  /\ b.max_recent_history_lines > 0 =>
                   /\ Len(kept) = Min(b.max_recent_history_lines, Len(lines))
                   /\ kept = SubSeq(lines, Len(lines) - Len(kept) + 1, Len(lines))
            /\ Len(promptCall.doc_items) <= Min(b.max_docs, Len(promptCall.docs))
            /\ Len(promptCall.mem_items) <= Min(b.max_memories, Len(promptCall.memories))
            /\ Len(promptCall.citations)
                   = Min(b.max_docs, Len(promptCall.docs))
                         + Min(b.max_memories, Len(promptCall.memories))

====
